---- MODULE Spec2Model ----
(***************************************************************************)
(* Model of the document-ingestion pipeline of rag_app:                    *)
(*   - async_retry           src/src/utils/decorators.py                   *)
(*   - _download_file        src/src/routers/create_embeddings.py          *)
(*   - create_embeddings     src/src/routers/create_embeddings.py          *)
(*   - hash_string           src/src/utils/hashers.py                      *)
(*   - get_pinecone_index    src/src/utils/clients.py                      *)
(*   - create_rag_chain      src/src/utils/chain.py                        *)
(*   - query                 src/src/routers/query.py                      *)
(*   - _chunk_content        src/src/routers/create_embeddings.py          *)
(*   - upload_files          src/src/routers/upload.py                     *)
(* The specifications of the module:                                       *)
(*   SpecRetry   one call of an async_retry-wrapped operation              *)
(*   SpecFetch   one call of the wrapped _download_file                    *)
(*   Spec        a sequence of create_embeddings requests                  *)
(*   SpecReingest  the same, the extracted content of a name changing      *)
(*               between requests                                          *)
(*   SpecPaths   concurrent create_embeddings requests and their files     *)
(*   SpecRace    concurrent requests on the event loop reaching the        *)
(*               index check of either router                              *)
(*   SpecRegistry  a sequence of requests for many clients, and indexes    *)
(*               deleted out of band                                       *)
(*   SpecQuery   one query request against a populated vector store        *)
(*   SpecTenants a sequence of query and ingest requests of one process    *)
(*               for many clients, nothing deleted out of band             *)
(*   SpecChunk   one call of _chunk_content on a short text                *)
(*   SpecUpload  one upload_files request                                  *)
(*   SpecBucket  one call of the wrapped _ensure_bucket_exists             *)
(***************************************************************************)
EXTENDS Integers, Sequences, FiniteSets, TLC

VARIABLES
    rw,         \* SpecRetry: the frame of one async_retry wrapper call
    dw,         \* the async_retry frame wrapped around _download_file
    dl,         \* the frame of the running _download_file attempt
    fs,         \* local storage under etc/tmp: path -> bytes of the files that exist
    server,     \* the remote resource and how the server treats Range
    req,        \* the frame of the running create_embeddings request
    clock,      \* datetime.now(), in microseconds
    samples,    \* etc/ocr_samples: what the extraction step finds on disk
    remote,     \* Pinecone: the names of the indexes that exist
    checked,    \* lru_cache of _check_pinecone_index, least recently used first
    vstore,     \* Pinecone: the vectors stored, per index and namespace
    hist,       \* what the finished requests did (history, not program state)
    calls,      \* SpecPaths: the frames of the concurrent create_embeddings calls
    env_model,  \* the configured EMBEDDING_MODEL
    indexes,    \* alru_cache of get_pinecone_index, least recently used first
    objects,    \* the number of pinecone Index objects constructed so far
    rcalls,     \* the remote list_indexes / create_index calls made (history)
    qs,         \* SpecRace: the frames of the concurrent requests
    running,    \* SpecRace: who holds the event loop's thread
    chains,     \* lru_cache of create_rag_chain, least recently used first
    reg,        \* SpecRegistry: the requests made so far (history)
    qr,         \* SpecQuery: the frame of the query request
    ck,         \* SpecChunk: the frame of one _chunk_content call
    up,         \* SpecUpload: the frame of one upload_files request
    bk          \* SpecBucket: the bucket and the running _ensure_bucket_exists

\* What a step of the retry specification, and a step of a download, leave alone.
later == <<calls, env_model, indexes, objects, rcalls, qs, running, chains, reg, qr, ck, up, bk>>
notRetry == <<dw, dl, fs, server, req, clock, samples, remote, checked, vstore, hist, later>>
notFetch == <<rw, req, clock, samples, remote, checked, vstore, hist, later>>
vars == <<rw, dw, dl, fs, server, req, clock, samples, remote, checked, vstore, hist, later>>

None == "None"

(***************************************************************************)
(* Bounds of the model.                                                    *)
(***************************************************************************)
MaxAttempts == 4        \* max_attempts ranges over 1..MaxAttempts in SpecRetry
MaxInitialDelay == 2    \* initial_delay ranges over 1..MaxInitialDelay
MaxBackoffBase == 3     \* backoff_base ranges over 1..MaxBackoffBase
MaxLen == 3             \* the remote resource has 0..MaxLen bytes in SpecFetch
MaxBlock == 2           \* bytes per streamed block (10 KiB in the code, scaled down)
MaxRequests == 2        \* create_embeddings requests served in Spec
MaxCalls == 2           \* create_embeddings calls running concurrently in SpecPaths
MaxClock == 2           \* the wall clock reads 1..MaxClock in SpecPaths
MaxRaceRequests == 2    \* requests running concurrently in SpecRace
MaxClients == 9         \* distinct clients requested in SpecRegistry
MaxRepeats == 2         \* requests for a client seen before in SpecRegistry
MaxText == 4            \* characters of a text given to the chunker in SpecChunk
MaxChunkSize == 3       \* chunk_size and chunk_overlap in SpecChunk
MaxFiles == 2           \* files of one upload request in SpecUpload

RECURSIVE Pow(_, _)
Pow(b, n) == IF n = 0 THEN 1 ELSE b * Pow(b, n - 1)

RECURSIVE SumPow(_, _)
\* b^1 + ... + b^n
SumPow(b, n) == IF n = 0 THEN 0 ELSE Pow(b, n) + SumPow(b, n - 1)

(***************************************************************************)
(* async_retry (decorators.py 7-41).  A frame holds the decorator's        *)
(* parameters, the locals delay and attempts, and where the wrapper is:    *)
(*   "calling"   awaiting the wrapped operation                            *)
(*   "sleeping"  awaiting asyncio.sleep(delay)                             *)
(*   "returned"  the wrapper returned (result)                             *)
(*   "raised"    the wrapper raised HTTPException(500, detail)             *)
(* calls, sleeps and errors record what the wrapper did.                   *)
(***************************************************************************)
ErrorKinds == {"transient", "caller"}     \* what an operation may raise in SpecRetry

\* The exception raised by invocation number n of the operation.
Error(kind, n) == [kind |-> kind, attempt |-> n]

IdleFrame ==
    [max_attempts |-> 0, initial_delay |-> 0, backoff_base |-> 0,
     delay |-> 0, attempts |-> 0, status |-> "idle",
     result |-> None, detail |-> None,
     calls |-> 0, sleeps |-> <<>>, errors |-> <<>>]

\* while attempts < max_attempts: (line 25)
LoopGuard(attempts, max_attempts) == attempts < max_attempts

\* Entering the wrapper: delay = initial_delay, attempts = 0, then the loop test.
WrapperStart(n, d0, b) ==
    [IdleFrame EXCEPT
        !.max_attempts = n, !.initial_delay = d0, !.backoff_base = b,
        !.delay = d0, !.attempts = 0,
        !.status = IF LoopGuard(0, n) THEN "calling" ELSE "returned",
        !.calls = IF LoopGuard(0, n) THEN 1 ELSE 0]

\* return await func(...)   (line 27)
OnSuccess(f, value) == [f EXCEPT !.status = "returned", !.result = value]

MutExhaustedOffByOne(attempts, max_attempts) == attempts > max_attempts

\* if attempts >= max_attempts: raise ...   (line 30)
Exhausted(attempts, max_attempts) == attempts >= max_attempts

MutNextDelayGeometric(delay, backoff_base, attempts) == delay * backoff_base

\* delay += backoff_base**attempts   (line 37)
NextDelay(delay, backoff_base, attempts) == delay + Pow(backoff_base, attempts)

\* except Exception as e:   (lines 28-36): every exception is caught, counted,
\* and either re-raised as HTTPException(500, str(e)) or followed by a sleep
\* of the current delay.
OnException(f, e) ==
    LET a == f.attempts + 1 IN
    IF Exhausted(a, f.max_attempts)
    THEN [f EXCEPT !.attempts = a, !.errors = Append(@, e),
                   !.status = "raised", !.detail = e]
    ELSE [f EXCEPT !.attempts = a, !.errors = Append(@, e),
                   !.status = "sleeping", !.sleeps = Append(@, f.delay)]

\* asyncio.sleep returned: the delay grows, the loop test runs, and the
\* operation is invoked again (falling out of the loop returns None).
AfterSleep(f) ==
    LET d == NextDelay(f.delay, f.backoff_base, f.attempts) IN
    IF LoopGuard(f.attempts, f.max_attempts)
    THEN [f EXCEPT !.delay = d, !.status = "calling", !.calls = @ + 1]
    ELSE [f EXCEPT !.delay = d, !.status = "returned", !.result = None]

(***************************************************************************)
(* SpecRetry: one call of a wrapped operation whose every invocation       *)
(* either returns or raises an exception of some kind.                     *)
(***************************************************************************)
RetryInit ==
    \E n \in 1..MaxAttempts, d0 \in 1..MaxInitialDelay, b \in 1..MaxBackoffBase :
        rw = WrapperStart(n, d0, b)

OpReturns ==
    /\ rw.status = "calling"
    /\ rw' = OnSuccess(rw, "value")
    /\ UNCHANGED notRetry

OpRaises ==
    /\ rw.status = "calling"
    /\ \E kind \in ErrorKinds : rw' = OnException(rw, Error(kind, rw.calls))
    /\ UNCHANGED notRetry

SleepEnds ==
    /\ rw.status = "sleeping"
    /\ rw' = AfterSleep(rw)
    /\ UNCHANGED notRetry

(***************************************************************************)
(* Strings are sequences of code points, so that formatting, suffix        *)
(* replacement and UTF-8 encoding are computed as the code computes them.  *)
(*   46 "."   95 "_"   48.. "0"..   97 "a"   112 "p"   114 "r"   116 "t"   *)
(***************************************************************************)
RECURSIVE Digits(_)
\* str(n) for n >= 0
Digits(n) == IF n < 10 THEN <<48 + n>> ELSE Digits(n \div 10) \o <<48 + (n % 10)>>

\* PARTIAL_SUFFIX = ".part"   (create_embeddings.py 34)
PARTIAL_SUFFIX == <<46, 112, 97, 114, 116>>

\* File names a request's URL may end in.  The first two stand for the two
\* sample documents the extraction step knows (a CJK stem and ".p" for ".pdf").
SampleA == <<24314, 46, 112>>
SampleB == <<26481, 46, 112>>
OtherName == <<97, 46, 116>>
FileNames == {SampleA, SampleB, OtherName}

\* str(timestamp) + "_" + file_name, under TMP_PATH   (create_embeddings.py 72-73)
FilePath(timestamp, file_name) == Digits(timestamp) \o <<95>> \o file_name

\* name.rfind("."), 1-based, 0 when there is none
LastDot(s) ==
    LET dots == {i \in 1..Len(s) : s[i] = 46} IN
    IF dots = {} THEN 0 ELSE CHOOSE i \in dots : \A j \in dots : j <= i

\* pathlib's Path.with_suffix: the part from the last dot on is the suffix,
\* unless the dot begins or ends the name; the suffix is replaced, or added.
with_suffix(path, suffix) ==
    LET i == LastDot(path) IN
    IF 1 < i /\ i < Len(path) THEN SubSeq(path, 1, i - 1) \o suffix
    ELSE path \o suffix

(***************************************************************************)
(* Local storage: a function from the paths that exist to their bytes.     *)
(***************************************************************************)
EmptyFs == [p \in {} |-> <<>>]

Remove(files, p) == [q \in DOMAIN files \ {p} |-> files[q]]

\* open(p, "wb") truncates or creates; open(p, "ab") creates when absent.
Open(files, p, mode) ==
    IF mode = "wb" \/ p \notin DOMAIN files THEN (p :> <<>>) @@ files ELSE files

Write(files, p, bytes) == [files EXCEPT ![p] = @ \o bytes]

\* Path.rename(target): replaces the target
Rename(files, p, target) ==
    IF p = target THEN files ELSE (target :> files[p]) @@ Remove(files, p)

(***************************************************************************)
(* The remote server.  The resource's bytes are 1, 2, ..., L, so that a    *)
(* missing, doubled or misplaced byte shows.  A server that honours Range  *)
(* answers "bytes=s-" with 206 and the bytes from offset s, and with 416   *)
(* when s is not below the length; one that does not answers 200 with the  *)
(* whole body.                                                             *)
(***************************************************************************)
Resource(len) == [i \in 1..len |-> i]

\* headers is <<>> (no Range header) or <<s>> (Range: bytes=s-).
ServerResponse(srv, headers) ==
    IF headers = <<>> \/ ~srv.ranges
    THEN [status |-> 200, body |-> srv.resource]
    ELSE IF headers[1] < Len(srv.resource)
    THEN [status |-> 206,
          body |-> SubSeq(srv.resource, headers[1] + 1, Len(srv.resource))]
    ELSE [status |-> 416, body |-> <<>>]

\* response.raise_for_status()   (create_embeddings.py 150)
RaisesForStatus(status) == status >= 400

(***************************************************************************)
(* _download_file (create_embeddings.py 131-157), decorated at line 131    *)
(* with async_retry: max_attempts 3, initial_delay 1, backoff 2.           *)
(***************************************************************************)
DOWNLOAD_MAX_ATTEMPTS == 3
DOWNLOAD_INITIAL_DELAY == 1
DOWNLOAD_BACKOFF_BASE == 2

IdleDownload ==
    [pc |-> "idle", file_path |-> <<>>, partial_file |-> <<>>, mode |-> None,
     existing_size |-> 0, headers |-> <<>>, body |-> <<>>]

MutOpenModeTruncates(exists) == "wb"

\* mode = "wb" if not partial_file.exists() else "ab"   (line 145)
OpenMode(exists) == IF ~exists THEN "wb" ELSE "ab"

\* headers = {"Range": f"bytes={existing_size}-"} if existing_size else {}   (line 147)
RangeHeader(existing_size) == IF existing_size # 0 THEN <<existing_size>> ELSE <<>>

\* Lines 144-147: the locals of an attempt, up to the request.
Prepare(files, file_path) ==
    LET partial == with_suffix(file_path, PARTIAL_SUFFIX)
        exists == partial \in DOMAIN files
        size == IF exists THEN Len(files[partial]) ELSE 0
    IN  [pc |-> "get", file_path |-> file_path, partial_file |-> partial,
         mode |-> OpenMode(exists), existing_size |-> size,
         headers |-> RangeHeader(size), body |-> <<>>]

\* The attempt raised e: the wrapper's except clause runs.
AttemptRaises(e) ==
    /\ dw' = OnException(dw, e)
    /\ dl' = [dl EXCEPT !.pc = "idle", !.body = <<>>]

\* The wrapper invokes _download_file: lines 144-149, up to awaiting the response.
DownloadBegin ==
    /\ dw.status = "calling"
    /\ dl.pc = "idle"
    /\ dl' = Prepare(fs, dl.file_path)
    /\ UNCHANGED <<dw, fs, server>>
    /\ UNCHANGED notFetch

\* The response arrives (lines 149-152): an error status raises, otherwise the
\* partial file is opened in the chosen mode.
DownloadResponse ==
    /\ dl.pc = "get"
    /\ LET r == ServerResponse(server, dl.headers) IN
       IF RaisesForStatus(r.status)
       THEN /\ AttemptRaises(Error(ToString(r.status), dw.calls))
            /\ UNCHANGED fs
       ELSE /\ fs' = Open(fs, dl.partial_file, dl.mode)
            /\ dl' = [dl EXCEPT !.pc = "stream", !.body = r.body]
            /\ UNCHANGED dw
    /\ UNCHANGED server
    /\ UNCHANGED notFetch

\* The request fails: the server is unavailable, or the connection breaks.
DownloadRequestFails ==
    /\ dl.pc = "get"
    /\ \E kind \in {"503", "transport"} : AttemptRaises(Error(kind, dw.calls))
    /\ UNCHANGED <<fs, server>>
    /\ UNCHANGED notFetch

\* One block of the body is written and flushed (lines 153-155).
DownloadBlock ==
    /\ dl.pc = "stream"
    /\ dl.body # <<>>
    /\ \E n \in 1..MaxBlock :
        /\ n <= Len(dl.body)
        /\ fs' = Write(fs, dl.partial_file, SubSeq(dl.body, 1, n))
        /\ dl' = [dl EXCEPT !.body = SubSeq(@, n + 1, Len(@))]
    /\ UNCHANGED <<dw, server>>
    /\ UNCHANGED notFetch

\* The transfer breaks while the body is read, at any point of it.
DownloadStreamFails ==
    /\ dl.pc = "stream"
    /\ AttemptRaises(Error("transport", dw.calls))
    /\ UNCHANGED <<fs, server>>
    /\ UNCHANGED notFetch

\* The body ended: the partial file is renamed to the destination (line 157).
DownloadComplete ==
    /\ dl.pc = "stream"
    /\ dl.body = <<>>
    /\ fs' = Rename(fs, dl.partial_file, dl.file_path)
    /\ dw' = OnSuccess(dw, None)
    /\ dl' = [dl EXCEPT !.pc = "idle"]
    /\ UNCHANGED server
    /\ UNCHANGED notFetch

\* asyncio.sleep(delay) returned (decorators.py 36-37).
DownloadSleepEnds ==
    /\ dw.status = "sleeping"
    /\ dw' = AfterSleep(dw)
    /\ UNCHANGED <<dl, fs, server>>
    /\ UNCHANGED notFetch

(***************************************************************************)
(* hash_string (hashers.py 4-20): the hex digest of the UTF-8 bytes.       *)
(* SHA-256's compression is replaced by a 16-bit polynomial fold of the    *)
(* bytes (4 hex digits instead of 64); encoding and hex formatting are     *)
(* computed.                                                               *)
(***************************************************************************)
\* s.encode("utf-8") of one code point
Utf8(cp) ==
    IF cp < 128 THEN <<cp>>
    ELSE IF cp < 2048 THEN <<192 + (cp \div 64), 128 + (cp % 64)>>
    ELSE <<224 + (cp \div 4096), 128 + ((cp \div 64) % 64), 128 + (cp % 64)>>

RECURSIVE Encode(_)
Encode(s) == IF s = <<>> THEN <<>> ELSE Utf8(Head(s)) \o Encode(Tail(s))

RECURSIVE Fold(_, _)
Fold(h, bytes) ==
    IF bytes = <<>> THEN h
    ELSE Fold((h * 31 + Head(bytes) + 1) % 65536, Tail(bytes))

HexDigit(d) == IF d < 10 THEN 48 + d ELSE 87 + d

\* hexdigest(): lower-case hex, most significant digit first
HexDigest(h) ==
    <<HexDigit(h \div 4096), HexDigit((h \div 256) % 16),
      HexDigit((h \div 16) % 16), HexDigit(h % 16)>>

hash_string(s) == HexDigest(Fold(7, Encode(s)))

(***************************************************************************)
(* Extraction, chunking and labeling (create_embeddings.py 160-236,        *)
(* 102-107).  A text is the sequence of the segments the splitter cuts it  *)
(* into at chunk_size 8191; a blank segment yields no fragment.            *)
(***************************************************************************)
Unbound == <<"unbound">>

\* etc/ocr_samples as shipped: two fragments for the first sample, one for
\* the second.
ShippedSamples == (SampleA :> <<"alpha", " ", "beta">>) @@ (SampleB :> <<"gamma">>)

\* _mock_ocr_extraction (lines 176-190): the sample's content for the two
\* known names, "" for every other name.
mock_ocr_extraction(files, file_name) ==
    IF file_name \in DOMAIN files THEN files[file_name] ELSE <<>>

NoMetadata == [k \in {} |-> None]

NotBlank(segment) == segment # " "

\* _chunk_content (lines 193-236)
chunk_content(text) ==
    LET kept == SelectSeq(text, NotBlank) IN
    [i \in 1..Len(kept) |-> [page_content |-> kept[i], metadata |-> NoMetadata]]

MutIdStringNoName(idx, file_name) == Digits(idx) \o <<95>>

\* f"{idx}_{file_name}"   (line 106)
IdString(idx, file_name) == Digits(idx) \o <<95>> \o file_name

MutMetadataFromOne(file_name, idx, timestamp) ==
    [name |-> file_name, chunk_id |-> idx + 1, timestamp |-> timestamp]

\* {"name": file_name, "chunk_id": idx, "timestamp": timestamp}   (line 105)
Metadata(file_name, idx, timestamp) ==
    [name |-> file_name, chunk_id |-> idx, timestamp |-> timestamp]

\* Lines 103-107: for idx, doc in enumerate(documents)
Label(documents, file_name, timestamp) ==
    [docs |-> [i \in 1..Len(documents) |->
                  [documents[i] EXCEPT !.metadata = Metadata(file_name, i - 1, timestamp)]],
     ids |-> [i \in 1..Len(documents) |-> hash_string(IdString(i - 1, file_name))]]

(***************************************************************************)
(* The vector store: the entries of every index and namespace.  An upsert  *)
(* replaces the entry with the same id in the same index and namespace.    *)
(***************************************************************************)
Upsert(store, index, namespace, ids, docs, which) ==
    LET new == {[index |-> index, namespace |-> namespace, id |-> ids[i],
                 page_content |-> docs[i].page_content,
                 metadata |-> docs[i].metadata] : i \in which}
        Replaced(e) == \E n \in new :
            n.index = e.index /\ n.namespace = e.namespace /\ n.id = e.id
    IN  {e \in store : ~Replaced(e)} \cup new

(***************************************************************************)
(* @lru_cache(maxsize=8) of _check_pinecone_index (lines 239-269): the     *)
(* keys, least recently used first.                                        *)
(***************************************************************************)
CHECK_CACHE_MAXSIZE == 8

Cached(cache, key) == \E i \in 1..Len(cache) : cache[i] = key

Touch(cache, key) ==
    LET Other(k) == k # key IN SelectSeq(cache, Other) \o <<key>>

Insert(cache, key, maxsize) ==
    LET c == Append(cache, key) IN IF Len(c) > maxsize THEN Tail(c) ELSE c

(***************************************************************************)
(* create_embeddings (create_embeddings.py 44-128).                        *)
(***************************************************************************)
Clients == {"acme", "globex"}
Projects == {"p1"}

\* CreateEmbeddingsResponse (response.py 10-14) and what line 126 passes.
ResponseFields == {"ids", "timestamp", "file_name", "details"}
ResponseGiven == {"details"}

IdleRequest ==
    [pc |-> "idle", client |-> None, project |-> None, file_name |-> <<>>,
     timestamp |-> 0, file_path |-> <<>>, downloaded |-> FALSE,
     full_content |-> Unbound, chunks |-> <<>>, documents |-> <<>>, ids |-> <<>>,
     upsert_calls |-> 0, upserted |-> FALSE, outcome |-> None, detail |-> None]

\* Lines 68-75: the timestamp, the file name, the path; the download begins.
IngestStart ==
    /\ req.pc = "idle"
    /\ clock < MaxRequests
    /\ clock' = clock + 1
    /\ \E client \in Clients, project \in Projects, file_name \in FileNames :
        /\ req' = [IdleRequest EXCEPT
                     !.pc = "download", !.client = client, !.project = project,
                     !.file_name = file_name, !.timestamp = clock',
                     !.file_path = FilePath(clock', file_name)]
        /\ dl' = [IdleDownload EXCEPT !.file_path = FilePath(clock', file_name)]
    /\ dw' = WrapperStart(DOWNLOAD_MAX_ATTEMPTS, DOWNLOAD_INITIAL_DELAY, DOWNLOAD_BACKOFF_BASE)
    /\ UNCHANGED <<later, rw, fs, server, samples, remote, checked, vstore, hist>>

MutDownloadFailureSwallowed ==
    /\ req.pc = "download"
    /\ dw.status = "raised"
    /\ req' = [req EXCEPT !.pc = "ocr", !.detail = dw.detail]
    /\ dw' = IdleFrame
    /\ dl' = IdleDownload
    /\ UNCHANGED <<later, rw, fs, server, clock, samples, remote, checked, vstore, hist>>

\* Lines 76-86, the except clause: the wrapper's HTTPException becomes the
\* request's HTTPException(500, "Failed to download file from url: ...").
IngestDownloadFailed ==
    /\ req.pc = "download"
    /\ dw.status = "raised"
    /\ req' = [req EXCEPT !.pc = "done", !.outcome = "download_failed",
                          !.detail = dw.detail]
    /\ dw' = IdleFrame
    /\ dl' = IdleDownload
    /\ UNCHANGED <<later, rw, fs, server, clock, samples, remote, checked, vstore, hist>>

\* Lines 80-82: the download returned.
IngestDownloaded ==
    /\ req.pc = "download"
    /\ dw.status = "returned"
    /\ req' = [req EXCEPT !.pc = "ocr", !.downloaded = TRUE]
    /\ dw' = IdleFrame
    /\ dl' = IdleDownload
    /\ UNCHANGED <<later, rw, fs, server, clock, samples, remote, checked, vstore, hist>>

\* Lines 88-90: the extraction returns a Document.
ExtractReturns ==
    /\ req.pc = "ocr"
    /\ req' = [req EXCEPT !.pc = "remove",
                          !.full_content = mock_ocr_extraction(samples, req.file_name)]
    /\ UNCHANGED <<later, rw, dw, dl, fs, server, clock, samples, remote, checked, vstore, hist>>

\* Lines 91-92: loading a sample raises MemoryError, which is logged;
\* full_content stays unbound.
ExtractMemoryError ==
    /\ req.pc = "ocr"
    /\ req.file_name \in DOMAIN samples
    /\ req' = [req EXCEPT !.pc = "remove"]
    /\ UNCHANGED <<later, rw, dw, dl, fs, server, clock, samples, remote, checked, vstore, hist>>

\* Reading a sample raises anything else (the file is missing or is not the
\* expected JSON): no except clause matches and the request ends.
ExtractRaises ==
    /\ req.pc = "ocr"
    /\ req.file_name \in DOMAIN samples
    /\ req' = [req EXCEPT !.pc = "done", !.outcome = "extraction_failed"]
    /\ UNCHANGED <<later, rw, dw, dl, fs, server, clock, samples, remote, checked, vstore, hist>>

\* Lines 94-96: os.remove(file_path)
RemoveArtifact ==
    /\ req.pc = "remove"
    /\ fs' = Remove(fs, req.file_path)
    /\ req' = [req EXCEPT !.pc = "chunk"]
    /\ UNCHANGED <<later, rw, dw, dl, server, clock, samples, remote, checked, vstore, hist>>

\* Lines 98-107: chunk and label; an unbound full_content raises.
ChunkAndLabel ==
    /\ req.pc = "chunk"
    /\ IF req.full_content = Unbound
       THEN req' = [req EXCEPT !.pc = "done", !.outcome = "content_unbound"]
       ELSE LET chunks == chunk_content(req.full_content)
                labeled == Label(chunks, req.file_name, req.timestamp)
            IN  req' = [req EXCEPT !.pc = "check_index", !.chunks = chunks,
                                   !.documents = labeled.docs, !.ids = labeled.ids]
    /\ UNCHANGED <<later, rw, dw, dl, fs, server, clock, samples, remote, checked, vstore, hist>>

\* Line 110: _check_pinecone_index(request.client, pinecone_client) returns:
\* from the cache, or after listing the indexes and creating the missing one.
CheckIndexReturns ==
    /\ req.pc = "check_index"
    /\ IF Cached(checked, req.client)
       THEN /\ checked' = Touch(checked, req.client)
            /\ UNCHANGED remote
       ELSE /\ remote' = remote \cup {req.client}
            /\ checked' = Insert(checked, req.client, CHECK_CACHE_MAXSIZE)
    /\ req' = [req EXCEPT !.pc = "upsert"]
    /\ UNCHANGED <<later, rw, dw, dl, fs, server, clock, samples, vstore, hist>>

\* Line 110: listing or creating raises; nothing is cached and the request ends.
CheckIndexRaises ==
    /\ req.pc = "check_index"
    /\ ~Cached(checked, req.client)
    /\ req' = [req EXCEPT !.pc = "done", !.outcome = "index_failed"]
    /\ UNCHANGED <<later, rw, dw, dl, fs, server, clock, samples, remote, checked, vstore, hist>>

\* Lines 113-120: aadd_documents(documents, ids) into index = client,
\* namespace = project, invoked once.
UpsertReturns ==
    /\ req.pc = "upsert"
    /\ vstore' = Upsert(vstore, req.client, req.project, req.ids, req.documents,
                        DOMAIN req.documents)
    /\ req' = [req EXCEPT !.pc = "respond", !.upsert_calls = @ + 1, !.upserted = TRUE]
    /\ UNCHANGED <<later, rw, dw, dl, fs, server, clock, samples, remote, checked, hist>>

\* What aadd_documents can raise: the index rejects the key
\* (UnauthorizedException), the embedding service rejects the key
\* (AuthenticationError), or anything else.
CredentialErrors == {"UnauthorizedException", "AuthenticationError"}
UpsertErrors == CredentialErrors \cup {"Exception"}

\* Lines 121-124: aadd_documents raises after storing some of the batches;
\* the one except clause, "except Exception", raises HTTPException(500)
\* whatever was raised.
UpsertRaises ==
    /\ req.pc = "upsert"
    /\ \E which \in SUBSET DOMAIN req.documents :
        /\ which # DOMAIN req.documents \/ which = {}
        /\ vstore' = Upsert(vstore, req.client, req.project, req.ids, req.documents, which)
    /\ \E e \in UpsertErrors :
        req' = [req EXCEPT !.pc = "done", !.upsert_calls = @ + 1,
                           !.outcome = "upsert_failed", !.detail = e]
    /\ UNCHANGED <<later, rw, dw, dl, fs, server, clock, samples, remote, checked, hist>>

\* Lines 126-128: the response model is built from the fields given.
Respond ==
    /\ req.pc = "respond"
    /\ req' = [req EXCEPT !.pc = "done",
                 !.outcome = IF ResponseFields \subseteq ResponseGiven
                             THEN "ok" ELSE "validation_error"]
    /\ UNCHANGED <<later, rw, dw, dl, fs, server, clock, samples, remote, checked, vstore, hist>>

\* Between two requests the JSON of the first sample under etc/ocr_samples
\* is replaced by a shorter one (lines 177-179 read the file at every call).
SampleReplaced ==
    /\ req.pc = "idle"
    /\ Len(samples[SampleA]) > 1
    /\ samples' = [samples EXCEPT ![SampleA] = SubSeq(@, 1, 1)]
    /\ UNCHANGED <<later, rw, dw, dl, fs, server, req, clock, remote, checked, vstore, hist>>

\* The request is over; what it did is recorded.
IngestEnd ==
    /\ req.pc = "done"
    /\ hist' = hist \cup
         {[client |-> req.client, project |-> req.project, file_name |-> req.file_name,
           timestamp |-> req.timestamp, upserted |-> req.upserted,
           labeled |-> req.outcome \in {"ok", "validation_error", "upsert_failed", "index_failed"},
           ids |-> req.ids]}
    /\ req' = IdleRequest
    /\ UNCHANGED <<later, rw, dw, dl, fs, server, clock, samples, remote, checked, vstore>>

(***************************************************************************)
(* Concurrent create_embeddings requests (create_embeddings.py 68-96,      *)
(* 144-157).  Each call reads the wall clock once (line 70) and derives    *)
(* its two paths from the reading and the file name.  datetime.now() is    *)
(* the wall clock at microsecond resolution: it is not a counter, and two  *)
(* calls may read the same value.  A block written by call c is the byte   *)
(* c, so the bytes of a file show who wrote them.                          *)
(***************************************************************************)
notPaths == <<env_model, indexes, objects, rcalls, qs, running, chains, reg, qr, ck, up, bk>>

\* The first sample's name with another extension.
SampleAText == <<24314, 46, 116>>

PathNames == {SampleA, SampleAText, SampleB}

CallIds == 1..MaxCalls

IdleCall ==
    [pc |-> "idle", file_name |-> <<>>, timestamp |-> 0, file_path |-> <<>>,
     partial_file |-> <<>>, mode |-> None]

NoCalls == [c \in CallIds |-> IdleCall]

\* Lines 70-73, 144-145: timestamp, file_name, file_path; partial_file, mode.
CallStart(c) ==
    /\ calls[c].pc = "idle"
    /\ \E now \in 1..MaxClock, file_name \in PathNames :
        /\ now >= clock
        /\ clock' = now
        /\ LET file_path == FilePath(now, file_name)
               partial_file == with_suffix(file_path, PARTIAL_SUFFIX)
           IN  calls' = [calls EXCEPT ![c] =
                   [pc |-> "get", file_name |-> file_name, timestamp |-> now,
                    file_path |-> file_path, partial_file |-> partial_file,
                    mode |-> OpenMode(partial_file \in DOMAIN fs)]]
    /\ UNCHANGED <<rw, dw, dl, fs, server, req, samples, remote, checked, vstore, hist>>
    /\ UNCHANGED notPaths

\* Line 152: aiofiles.open(partial_file, mode)
CallOpen(c) ==
    /\ calls[c].pc = "get"
    /\ fs' = Open(fs, calls[c].partial_file, calls[c].mode)
    /\ calls' = [calls EXCEPT ![c].pc = "stream"]
    /\ UNCHANGED <<rw, dw, dl, server, req, clock, samples, remote, checked, vstore, hist>>
    /\ UNCHANGED notPaths

\* Lines 153-155: a block is written through the open file.  The file
\* written is the one opened, wherever a rename has moved it to since.
CallBlock(c) ==
    /\ calls[c].pc = "stream"
    /\ IF calls[c].partial_file \in DOMAIN fs
       THEN fs' = Write(fs, calls[c].partial_file, <<c>>)
       ELSE IF calls[c].file_path \in DOMAIN fs
       THEN fs' = Write(fs, calls[c].file_path, <<c>>)
       ELSE UNCHANGED fs
    /\ calls' = [calls EXCEPT ![c].pc = "written"]
    /\ UNCHANGED <<rw, dw, dl, server, req, clock, samples, remote, checked, vstore, hist>>
    /\ UNCHANGED notPaths

\* Line 157: partial_file.rename(file_path)
CallRename(c) ==
    /\ calls[c].pc = "written"
    /\ calls[c].partial_file \in DOMAIN fs
    /\ fs' = Rename(fs, calls[c].partial_file, calls[c].file_path)
    /\ calls' = [calls EXCEPT ![c].pc = "placed"]
    /\ UNCHANGED <<rw, dw, dl, server, req, clock, samples, remote, checked, vstore, hist>>
    /\ UNCHANGED notPaths

\* Line 157: the partial file is no longer there: FileNotFoundError.
CallRenameRaises(c) ==
    /\ calls[c].pc = "written"
    /\ calls[c].partial_file \notin DOMAIN fs
    /\ calls' = [calls EXCEPT ![c].pc = "failed"]
    /\ UNCHANGED <<rw, dw, dl, fs, server, req, clock, samples, remote, checked, vstore, hist>>
    /\ UNCHANGED notPaths

\* Line 96: os.remove(file_path)
CallRemove(c) ==
    /\ calls[c].pc = "placed"
    /\ calls[c].file_path \in DOMAIN fs
    /\ fs' = Remove(fs, calls[c].file_path)
    /\ calls' = [calls EXCEPT ![c].pc = "done"]
    /\ UNCHANGED <<rw, dw, dl, server, req, clock, samples, remote, checked, vstore, hist>>
    /\ UNCHANGED notPaths

\* Line 96: the file is no longer there: FileNotFoundError.
CallRemoveRaises(c) ==
    /\ calls[c].pc = "placed"
    /\ calls[c].file_path \notin DOMAIN fs
    /\ calls' = [calls EXCEPT ![c].pc = "failed"]
    /\ UNCHANGED <<rw, dw, dl, fs, server, req, clock, samples, remote, checked, vstore, hist>>
    /\ UNCHANGED notPaths

(***************************************************************************)
(* The index registry: get_pinecone_index (clients.py 43-78) under         *)
(* alru_cache(maxsize=8), and _check_pinecone_index (create_embeddings.py  *)
(* 239-269) under lru_cache(maxsize=8).  Both list the remote indexes and  *)
(* create the client's index when it is absent, with the dimension looked  *)
(* up in DIMENSIONS under the configured embedding model.                  *)
(***************************************************************************)
DIMENSIONS ==
    [m \in {"text-embedding-3-small", "text-embedding-3-large", "text-embedding-ada-002"} |->
        IF m = "text-embedding-3-large" THEN 3072 ELSE 1536]

\* A configured model of the table, and one that is not in it.
EnvModels == {"text-embedding-3-small", "text-embedding-4"}

INDEX_CACHE_MAXSIZE == 8

\* Counters of remote calls per index name.
NoCount == [t \in {} |-> 0]
Count(f, t) == IF t \in DOMAIN f THEN f[t] ELSE 0
Incr(f, t) == (t :> Count(f, t) + 1) @@ f

\* initial: the indexes that existed when the process started.
NoRemoteCalls == [list |-> NoCount, create |-> NoCount, dimension |-> NoCount, initial |-> {}]

\* pinecone_client.list_indexes() is called for the request of client t.
Listing(rc, t) == [rc EXCEPT !.list = Incr(@, t)]

\* pinecone_client.create_index(name=t, dimension=DIMENSIONS[model], ...)
Creating(rc, t, model) ==
    [rc EXCEPT !.create = Incr(@, t), !.dimension = (t :> DIMENSIONS[model]) @@ @]

\* DIMENSIONS[ENV["EMBEDDING_MODEL"]] raises KeyError for a model not in the table.
DimensionRaises(model) == model \notin DOMAIN DIMENSIONS

\* pinecone_client.Index(name=client): a new object at every call.
Handle(t, n) == [name |-> t, obj |-> n]

MutAlruFindNothing(cache, key) == 0

\* The alru_cache: entries [key, state, handle], least recently used first.
AlruFind(cache, key) ==
    LET I == {i \in 1..Len(cache) : cache[i].key = key}
    IN  IF I = {} THEN 0 ELSE CHOOSE i \in I : TRUE

AlruTouch(cache, key) ==
    LET Is(e) == e.key = key
        Other(e) == e.key # key
    IN  SelectSeq(cache, Other) \o SelectSeq(cache, Is)

MutAlruRemoveKeeps(cache, key) == cache

AlruRemove(cache, key) ==
    LET Other(e) == e.key # key IN SelectSeq(cache, Other)

MutAlruInsertDropsNewest(cache, entry, maxsize) ==
    IF Len(cache) >= maxsize THEN cache ELSE Append(cache, entry)

AlruInsert(cache, entry, maxsize) ==
    LET c == Append(cache, entry) IN IF Len(c) > maxsize THEN Tail(c) ELSE c

AlruSet(cache, key, entry) ==
    [i \in 1..Len(cache) |-> IF cache[i].key = key THEN entry ELSE cache[i]]

Pending(key) == [key |-> key, state |-> "scheduled", handle |-> None]
Done(key, handle) == [key |-> key, state |-> "done", handle |-> handle]

(***************************************************************************)
(* Concurrent requests on the event loop.  A coroutine runs on the loop's  *)
(* one thread from one suspension to the next; list_indexes and            *)
(* create_index are synchronous calls, so the coroutine making one keeps   *)
(* the thread until the call returns.  A query request awaits              *)
(* get_pinecone_index (query.py 36); an ingest request calls               *)
(* _check_pinecone_index (create_embeddings.py 110).                       *)
(***************************************************************************)
RaceIds == 1..MaxRaceRequests

\* The holder of the loop's thread: nobody, the task of get_pinecone_index
\* for a client, or the handler of a request.
Free == <<>>
Task(t) == <<"task", t>>
Request(r) == <<"request", ToString(r)>>

MutCallSuspends(holder) == Free

\* list_indexes() and create_index() are plain calls, not awaited: the
\* caller holds the thread while the call is in flight.
DuringCall(holder) == holder

IdleQuery == [pc |-> "idle", kind |-> None, client |-> None, index |-> None, error |-> None]

NoRequests == [r \in RaceIds |-> IdleQuery]

notRace == <<rw, dw, dl, fs, server, req, clock, samples, vstore, hist, calls, env_model,
             chains, reg, qr, ck, up, bk>>

\* A request arrives.
RaceStart(r) ==
    /\ qs[r].pc = "idle"
    /\ \E kind \in {"query", "ingest"}, client \in Clients :
        qs' = [qs EXCEPT ![r] = [IdleQuery EXCEPT !.pc = "enter", !.kind = kind,
                                                  !.client = client]]
    /\ UNCHANGED <<running, indexes, checked, remote, objects, rcalls>>
    /\ UNCHANGED notRace

\* query.py 36, in the alru_cache wrapper: a finished entry is returned at
\* once; a pending one is awaited; on a miss the task of the function is
\* created, its entry is cached and the caller awaits it.
GetIndexCall(r) ==
    /\ qs[r].pc = "enter" /\ qs[r].kind = "query"
    /\ running = Free
    /\ LET i == AlruFind(indexes, qs[r].client) IN
       IF i = 0
       THEN /\ indexes' = AlruInsert(indexes, Pending(qs[r].client), INDEX_CACHE_MAXSIZE)
            /\ qs' = [qs EXCEPT ![r].pc = "await_index"]
       ELSE /\ indexes' = AlruTouch(indexes, qs[r].client)
            /\ IF indexes[i].state = "done"
               THEN qs' = [qs EXCEPT ![r].pc = "returned", ![r].index = indexes[i].handle]
               ELSE qs' = [qs EXCEPT ![r].pc = "await_index"]
    /\ UNCHANGED <<running, checked, remote, objects, rcalls>>
    /\ UNCHANGED notRace

\* clients.py 61-62: the task starts and calls list_indexes().
TaskBegin(t) ==
    /\ running = Free
    /\ AlruFind(indexes, t) # 0
    /\ indexes[AlruFind(indexes, t)].state = "scheduled"
    /\ indexes' = AlruSet(indexes, t, [Pending(t) EXCEPT !.state = "listing"])
    /\ running' = DuringCall(Task(t))
    /\ rcalls' = Listing(rcalls, t)
    /\ UNCHANGED <<qs, checked, remote, objects>>
    /\ UNCHANGED notRace

\* The future of the task gets an exception: the entry leaves the cache and
\* every caller awaiting it gets the exception.
Waiting(r, t) == qs[r].pc = "await_index" /\ qs[r].client = t

TaskFails(t, error) ==
    /\ indexes' = AlruRemove(indexes, t)
    /\ qs' = [r \in RaceIds |->
                IF Waiting(r, t) THEN [qs[r] EXCEPT !.pc = "raised", !.error = error]
                ELSE qs[r]]
    /\ running' = Free

\* clients.py 78: the handle is constructed and becomes the task's result.
TaskReturns(t) ==
    /\ objects' = objects + 1
    /\ indexes' = AlruSet(indexes, t, Done(t, Handle(t, objects + 1)))
    /\ running' = Free

\* clients.py 62-73: list_indexes() returns; the index exists, or the
\* dimension lookup raises, or create_index() is called.
TaskListed(t) ==
    /\ running = DuringCall(Task(t))
    /\ AlruFind(indexes, t) # 0
    /\ indexes[AlruFind(indexes, t)].state = "listing"
    /\ IF t \in remote
       THEN TaskReturns(t) /\ UNCHANGED <<qs, rcalls>>
       ELSE IF DimensionRaises(env_model)
       THEN TaskFails(t, "KeyError") /\ UNCHANGED <<objects, rcalls>>
       ELSE /\ indexes' = AlruSet(indexes, t, [Pending(t) EXCEPT !.state = "creating"])
            /\ rcalls' = Creating(rcalls, t, env_model)
            /\ UNCHANGED <<qs, running, objects>>
    /\ UNCHANGED <<checked, remote>>
    /\ UNCHANGED notRace

\* clients.py 62: list_indexes() raises.
TaskListRaises(t) ==
    /\ running = DuringCall(Task(t))
    /\ AlruFind(indexes, t) # 0
    /\ indexes[AlruFind(indexes, t)].state = "listing"
    /\ TaskFails(t, "UnauthorizedException")
    /\ UNCHANGED <<checked, remote, objects, rcalls>>
    /\ UNCHANGED notRace

\* clients.py 68-78: create_index() returns.
TaskCreated(t) ==
    /\ running = DuringCall(Task(t))
    /\ AlruFind(indexes, t) # 0
    /\ indexes[AlruFind(indexes, t)].state = "creating"
    /\ remote' = remote \cup {t}
    /\ TaskReturns(t)
    /\ UNCHANGED <<qs, checked, rcalls>>
    /\ UNCHANGED notRace

\* clients.py 68-73: create_index() raises.
TaskCreateRaises(t) ==
    /\ running = DuringCall(Task(t))
    /\ AlruFind(indexes, t) # 0
    /\ indexes[AlruFind(indexes, t)].state = "creating"
    /\ TaskFails(t, "PineconeException")
    /\ UNCHANGED <<checked, remote, objects, rcalls>>
    /\ UNCHANGED notRace

\* query.py 36: the awaited future has its result.
GetIndexResume(r) ==
    /\ qs[r].pc = "await_index"
    /\ running = Free
    /\ LET i == AlruFind(indexes, qs[r].client) IN
        /\ i # 0
        /\ indexes[i].state = "done"
        /\ qs' = [qs EXCEPT ![r].pc = "returned", ![r].index = indexes[i].handle]
    /\ UNCHANGED <<running, indexes, checked, remote, objects, rcalls>>
    /\ UNCHANGED notRace

\* create_embeddings.py 110: a cached key returns at once; otherwise the
\* handler itself calls list_indexes() (line 259).
CheckIndexCall(r) ==
    /\ qs[r].pc = "enter" /\ qs[r].kind = "ingest"
    /\ running = Free
    /\ IF Cached(checked, qs[r].client)
       THEN /\ checked' = Touch(checked, qs[r].client)
            /\ qs' = [qs EXCEPT ![r].pc = "returned"]
            /\ UNCHANGED <<running, rcalls>>
       ELSE /\ qs' = [qs EXCEPT ![r].pc = "listing"]
            /\ running' = DuringCall(Request(r))
            /\ rcalls' = Listing(rcalls, qs[r].client)
            /\ UNCHANGED checked
    /\ UNCHANGED <<indexes, remote, objects>>
    /\ UNCHANGED notRace

\* create_embeddings.py 259-269: list_indexes() returns.
CheckIndexListed(r) ==
    /\ qs[r].pc = "listing"
    /\ running = DuringCall(Request(r))
    /\ IF qs[r].client \in remote
       THEN /\ checked' = Insert(checked, qs[r].client, CHECK_CACHE_MAXSIZE)
            /\ qs' = [qs EXCEPT ![r].pc = "returned"]
            /\ running' = Free
            /\ UNCHANGED rcalls
       ELSE IF DimensionRaises(env_model)
       THEN /\ qs' = [qs EXCEPT ![r].pc = "raised", ![r].error = "KeyError"]
            /\ running' = Free
            /\ UNCHANGED <<checked, rcalls>>
       ELSE /\ qs' = [qs EXCEPT ![r].pc = "creating"]
            /\ rcalls' = Creating(rcalls, qs[r].client, env_model)
            /\ UNCHANGED <<checked, running>>
    /\ UNCHANGED <<indexes, remote, objects>>
    /\ UNCHANGED notRace

\* create_embeddings.py 259: list_indexes() raises.
CheckIndexListRaises(r) ==
    /\ qs[r].pc = "listing"
    /\ running = DuringCall(Request(r))
    /\ qs' = [qs EXCEPT ![r].pc = "raised", ![r].error = "UnauthorizedException"]
    /\ running' = Free
    /\ UNCHANGED <<indexes, checked, remote, objects, rcalls>>
    /\ UNCHANGED notRace

\* create_embeddings.py 262-269: create_index() returns.
CheckIndexCreated(r) ==
    /\ qs[r].pc = "creating"
    /\ running = DuringCall(Request(r))
    /\ remote' = remote \cup {qs[r].client}
    /\ checked' = Insert(checked, qs[r].client, CHECK_CACHE_MAXSIZE)
    /\ qs' = [qs EXCEPT ![r].pc = "returned"]
    /\ running' = Free
    /\ UNCHANGED <<indexes, objects, rcalls>>
    /\ UNCHANGED notRace

\* create_embeddings.py 262-267: create_index() raises.
CheckIndexCreateRaises(r) ==
    /\ qs[r].pc = "creating"
    /\ running = DuringCall(Request(r))
    /\ qs' = [qs EXCEPT ![r].pc = "raised", ![r].error = "PineconeException"]
    /\ running' = Free
    /\ UNCHANGED <<indexes, checked, remote, objects, rcalls>>
    /\ UNCHANGED notRace

(***************************************************************************)
(* A sequence of requests served one after the other, for more clients     *)
(* than the caches hold.  A process serves query requests (query.py 36-43: *)
(* get_pinecone_index, then create_rag_chain under lru_cache(maxsize=124), *)
(* chain.py 67) or ingest requests (create_embeddings.py 110).  Clients    *)
(* are numbered in the order of their first request.  An index may be      *)
(* deleted from Pinecone by somebody else at any time.                     *)
(***************************************************************************)
CHAIN_CACHE_MAXSIZE == 124

RegClients == 1..MaxClients

\* query.py 37-43: the arguments of create_rag_chain; lru_cache hashes the
\* Index object by identity.
ChainKey(index, project, file_name) ==
    [index |-> index, project |-> project, file_name |-> file_name,
     prompt_file |-> "query_prompt.txt", prompt_inputs |-> <<"context", "question">>]

NoHistory ==
    [kind |-> None, seen |-> 0, repeats |-> 0, n |-> 0, tenant |-> 0,
     lastuse |-> <<>>, builds |-> NoCount, stale |-> {}]

notRegistry == <<rw, dw, dl, fs, server, req, clock, samples, vstore, hist, calls, env_model,
                 qs, running, qr, ck, up, bk>>

\* The next request is for a new client, or one of the MaxRepeats requests
\* for a client seen before.
MayRequest(t) ==
    \/ t = reg.seen + 1
    \/ t <= reg.seen /\ reg.repeats < MaxRepeats

Requested(h, t) ==
    LET Other(u) == u # t IN
    [h EXCEPT !.seen = IF t > @ THEN t ELSE @,
              !.repeats = IF t <= h.seen THEN @ + 1 ELSE @,
              !.n = @ + 1,
              !.tenant = t,
              !.lastuse = SelectSeq(@, Other) \o <<t>>,
              !.stale = IF t \notin remote THEN @ \cup {t} ELSE @]

\* chain.py 67-123 under lru_cache: the chain of the key, built on a miss.
ChainsAfter(cache, key) ==
    IF Cached(cache, key) THEN Touch(cache, key)
    ELSE Insert(cache, key, CHAIN_CACHE_MAXSIZE)

Built(h, cache, key, t) ==
    IF Cached(cache, key) THEN h ELSE [h EXCEPT !.builds = Incr(@, t)]

\* query.py 36-43, the index is memoized.
QueryHit(t) ==
    /\ reg.kind \in {"query", "both"} /\ MayRequest(t)
    /\ AlruFind(indexes, t) # 0
    /\ LET key == ChainKey(indexes[AlruFind(indexes, t)].handle, "p1", SampleA) IN
        /\ indexes' = AlruTouch(indexes, t)
        /\ chains' = ChainsAfter(chains, key)
        /\ reg' = Built(Requested(reg, t), chains, key, t)
    /\ UNCHANGED <<remote, checked, objects, rcalls>>
    /\ UNCHANGED notRegistry

\* query.py 36-43, the index is not memoized: clients.py 61-78 runs.
QueryMiss(t) ==
    /\ reg.kind \in {"query", "both"} /\ MayRequest(t)
    /\ AlruFind(indexes, t) = 0
    /\ LET handle == Handle(t, objects + 1)
           key == ChainKey(handle, "p1", SampleA)
       IN
        /\ rcalls' = IF t \in remote THEN Listing(rcalls, t)
                     ELSE Creating(Listing(rcalls, t), t, env_model)
        /\ remote' = remote \cup {t}
        /\ objects' = objects + 1
        /\ indexes' = AlruInsert(indexes, Done(t, handle), INDEX_CACHE_MAXSIZE)
        /\ chains' = ChainsAfter(chains, key)
        /\ reg' = Built([Requested(reg, t) EXCEPT !.stale = reg.stale], chains, key, t)
    /\ UNCHANGED checked
    /\ UNCHANGED notRegistry

\* create_embeddings.py 110, the key is memoized.
IngestHit(t) ==
    /\ reg.kind \in {"ingest", "both"} /\ MayRequest(t)
    /\ Cached(checked, t)
    /\ checked' = Touch(checked, t)
    /\ reg' = Requested(reg, t)
    /\ UNCHANGED <<remote, indexes, chains, objects, rcalls>>
    /\ UNCHANGED notRegistry

MutIngestMissAlwaysCreates(t) ==
    /\ reg.kind \in {"ingest", "both"} /\ MayRequest(t)
    /\ ~Cached(checked, t)
    /\ rcalls' = Creating(Listing(rcalls, t), t, env_model)
    /\ remote' = remote \cup {t}
    /\ checked' = Insert(checked, t, CHECK_CACHE_MAXSIZE)
    /\ reg' = [Requested(reg, t) EXCEPT !.stale = reg.stale]
    /\ UNCHANGED <<indexes, chains, objects>>
    /\ UNCHANGED notRegistry

\* create_embeddings.py 110, the key is not memoized: lines 259-269 run.
IngestMiss(t) ==
    /\ reg.kind \in {"ingest", "both"} /\ MayRequest(t)
    /\ ~Cached(checked, t)
    /\ rcalls' = IF t \in remote THEN Listing(rcalls, t)
                 ELSE Creating(Listing(rcalls, t), t, env_model)
    /\ remote' = remote \cup {t}
    /\ checked' = Insert(checked, t, CHECK_CACHE_MAXSIZE)
    /\ reg' = [Requested(reg, t) EXCEPT !.stale = reg.stale]
    /\ UNCHANGED <<indexes, chains, objects>>
    /\ UNCHANGED notRegistry

\* Somebody deletes the index of a client that has been served.
DeleteOutOfBand(t) ==
    /\ t <= reg.seen
    /\ remote = 1..reg.seen
    /\ remote' = remote \ {t}
    /\ UNCHANGED <<checked, indexes, chains, objects, rcalls, reg>>
    /\ UNCHANGED notRegistry

(***************************************************************************)
(* The query request (query.py 36-64) and the chain it invokes (chain.py   *)
(* 14-18, 101-131).  The store holds what ingests have upserted; the       *)
(* content of a fragment is modelled by the tuple naming its origin, so    *)
(* that two fragments never have the same content.  The similarity         *)
(* ranking of the fragments is the vector store's: any order of them.      *)
(***************************************************************************)
TOP_K == 3

QueryProjects == {"p1", "p2"}
QueryNames == {SampleA, SampleB}

\* The fragments of an ingest: four for the first sample, two for the second.
FragmentsOf(client, project, file_name) ==
    LET n == IF file_name = SampleA THEN TOP_K + 1 ELSE TOP_K - 1 IN
    [i \in 1..n |-> [page_content |-> <<client, project, file_name, i>>,
                    metadata |-> NoMetadata]]

Ingests == Clients \X QueryProjects \X QueryNames

\* The store after the ingests of the set S (create_embeddings.py 99-120).
RECURSIVE StoreOf(_)
StoreOf(S) ==
    IF S = {} THEN {}
    ELSE LET g == CHOOSE x \in S : TRUE
             labeled == Label(FragmentsOf(g[1], g[2], g[3]), g[3], 1)
         IN  Upsert(StoreOf(S \ {g}), g[1], g[2], labeled.ids, labeled.docs,
                    DOMAIN labeled.docs)

\* chain.py 14-18, 101-107: the retriever of the index, over the namespace
\* project, with k and the filter on the name metadata.
Retriever(index, project, file_name, top_k) ==
    [index |-> index.name, namespace |-> project, k |-> top_k,
     filter |-> [name |-> file_name]]

MutMatchesAnyName(store, retriever) ==
    {e \in store : e.index = retriever.index /\ e.namespace = retriever.namespace}

\* The entries the similarity search ranges over.
Matches(store, retriever) ==
    {e \in store : /\ e.index = retriever.index
                   /\ e.namespace = retriever.namespace
                   /\ e.metadata.name = retriever.filter.name}

\* The orders in which the store may rank a set of entries.
Rankings(S) ==
    {r \in [1..Cardinality(S) -> S] : \A i, j \in 1..Cardinality(S) : r[i] = r[j] => i = j}

MutTopKAll(ranked, k) == ranked

\* The k best of the ranking.
TopK(ranked, k) == SubSeq(ranked, 1, IF Len(ranked) < k THEN Len(ranked) ELSE k)

MutCombineNoSeparator(docs) == [i \in 1..Len(docs) |-> docs[i].page_content]

\* chain.py 126-131: "\n\n".join(doc.page_content for doc in docs)
RECURSIVE combine_context(_)
combine_context(docs) ==
    IF docs = <<>> THEN <<>>
    ELSE IF Len(docs) = 1 THEN <<docs[1].page_content>>
    ELSE <<docs[1].page_content, "\n\n">> \o combine_context(Tail(docs))

\* query.py 57: [doc.page_content for doc in response["context"]]
ContextOf(docs) == [i \in 1..Len(docs) |-> docs[i].page_content]

Answers == {"an answer", ""}

\* What chain.invoke hands back (query.py 47): response["answer"] is a str
\* or something else, response["context"] a list or something else.
Shapes == [answer : {"str", "other"}, context : {"list", "other"}]

MutWellShapedAnswerOnly(shape) == shape.answer = "str"

\* query.py 55: isinstance(answer, str) and isinstance(context, list)
WellShaped(shape) == shape.answer = "str" /\ shape.context = "list"

IdleQueryRequest ==
    [pc |-> "idle", client |-> None, project |-> None, file_name |-> <<>>,
     retriever |-> None, ranked |-> <<>>, docs |-> <<>>, prompt_context |-> <<>>,
     generated |-> None, shape |-> [answer |-> None, context |-> None],
     answer |-> None, context |-> <<>>, status |-> 0,
     query |-> None, llm_calls |-> 0,
     llm_input |-> [context |-> <<>>, question |-> None]]

\* request.query
Queries == {"what is it?", ""}

\* chain.py 113-118: what the prompt, and with it the model, is given: the
\* combined context and the question passed through.
LlmInput(q) == [context |-> q.prompt_context, question |-> q.query]

notQuery == <<rw, dw, dl, fs, server, req, clock, samples, remote, checked, hist, calls,
              env_model, indexes, objects, rcalls, qs, running, chains, reg, ck, up, bk>>

\* query.py 36-43: the index of the client, the chain of the key.
QueryStart ==
    /\ qr.pc = "idle"
    /\ \E client \in Clients, project \in QueryProjects, file_name \in QueryNames,
          query \in Queries :
        qr' = [IdleQueryRequest EXCEPT
                 !.pc = "retrieve", !.client = client, !.project = project,
                 !.file_name = file_name, !.query = query,
                 !.retriever = Retriever(Handle(client, 1), project, file_name, TOP_K)]
    /\ UNCHANGED vstore
    /\ UNCHANGED notQuery

\* query.py 47, chain.py 121: the retriever's search returns.
QueryRetrieved ==
    /\ qr.pc = "retrieve"
    /\ \E ranked \in Rankings(Matches(vstore, qr.retriever)) :
        LET docs == TopK(ranked, qr.retriever.k) IN
        qr' = [qr EXCEPT !.pc = "generate", !.ranked = ranked, !.docs = docs,
                         !.prompt_context = combine_context(docs)]
    /\ UNCHANGED vstore
    /\ UNCHANGED notQuery

\* query.py 47, chain.py 114-123: the model answers.
QueryGenerated ==
    /\ qr.pc = "generate"
    /\ \E text \in Answers, shape \in Shapes :
        qr' = [qr EXCEPT !.pc = "respond", !.generated = text, !.shape = shape,
                         !.llm_calls = @ + 1, !.llm_input = LlmInput(qr)]
    /\ UNCHANGED vstore
    /\ UNCHANGED notQuery

\* query.py 48-53: the search or the model raises.
QueryInvokeRaises ==
    /\ qr.pc \in {"retrieve", "generate"}
    /\ \E status \in {401, 500} :
        qr' = IF qr.pc = "generate"
              THEN [qr EXCEPT !.pc = "raised", !.status = status,
                              !.llm_calls = @ + 1, !.llm_input = LlmInput(qr)]
              ELSE [qr EXCEPT !.pc = "raised", !.status = status]
    /\ UNCHANGED vstore
    /\ UNCHANGED notQuery

\* query.py 58-61: the else branch raises TypeError; nothing catches it and
\* the request ends without a QueryResponse.
QueryShapeError ==
    /\ qr.pc = "respond"
    /\ ~WellShaped(qr.shape)
    /\ qr' = [qr EXCEPT !.pc = "type_error", !.status = 500]
    /\ UNCHANGED vstore
    /\ UNCHANGED notQuery

\* query.py 55-57, 64: QueryResponse(answer=answer, context=context)
QueryReturns ==
    /\ qr.pc = "respond"
    /\ WellShaped(qr.shape)
    /\ qr' = [qr EXCEPT !.pc = "returned", !.status = 200,
                        !.answer = qr.generated, !.context = ContextOf(qr.docs)]
    /\ UNCHANGED vstore
    /\ UNCHANGED notQuery

(***************************************************************************)
(* The chunker at character level (create_embeddings.py 193-236, chain.py  *)
(* 21-64).  Line 216 constructs a RecursiveCharacterTextSplitter with the  *)
(* separators of lines 217-229 and calls from_tiktoken_encoder on it.      *)
(* from_tiktoken_encoder is a classmethod: called on an instance it        *)
(* receives the instance's class, and returns                              *)
(* cls(length_function=<token count>, chunk_size=..., chunk_overlap=...),  *)
(* a new splitter whose separators are the class's default.  line 235      *)
(* splits with that new splitter.                                          *)
(*                                                                         *)
(* A text is a sequence of code points.  The length function counts        *)
(* cl100k_base tokens; here the count of a string is the sum of the counts *)
(* of its characters, and a character outside the encoding's merges costs  *)
(* more than one token.                                                    *)
(***************************************************************************)
LF == 10
SP == 32
LetterA == 97
IdeographicFullStop == 12290
WideChar == 128512
Alphabet == {LetterA, SP, LF, IdeographicFullStop, WideChar}

BoundedSeq(S, n) == UNION {[1..k -> S] : k \in 0..n}
Texts == BoundedSeq(Alphabet, MaxText)

\* Lines 217-229, in order; "" is <<>>.
SEPARATORS ==
    << <<LF, LF>>, <<LF>>, <<SP>>, <<46>>, <<44>>, <<8203>>, <<65292>>, <<12289>>,
       <<65294>>, <<IdeographicFullStop>>, <<>> >>

\* RecursiveCharacterTextSplitter.__init__: separators or ["\n\n", "\n", " ", ""]
DEFAULT_SEPARATORS == << <<LF, LF>>, <<LF>>, <<SP>>, <<>> >>

\* The splitter object: its separators, chunk_size and chunk_overlap.
Splitter(separators, chunk_size, chunk_overlap) ==
    [separators |-> separators, chunk_size |-> chunk_size, chunk_overlap |-> chunk_overlap]

\* Line 216: RecursiveCharacterTextSplitter(separators=[...]), the other
\* arguments at the library's defaults.
Constructed == Splitter(SEPARATORS, 4000, 200)

\* Lines 230-234: the classmethod builds its result from the class and its
\* keyword arguments, not from the instance it was called on.
from_tiktoken_encoder(self, chunk_size, chunk_overlap) ==
    Splitter(DEFAULT_SEPARATORS, chunk_size, chunk_overlap)

\* TextSplitter.__init__ raises ValueError for an overlap above the size.
ConstructorRaises(chunk_size, chunk_overlap) == chunk_overlap > chunk_size

TokenCount(c) == IF c = WideChar THEN 2 ELSE 1

\* The length function: the number of tokens of a string.
RECURSIVE Tokens(_)
Tokens(text) == IF text = <<>> THEN 0 ELSE TokenCount(Head(text)) + Tokens(Tail(text))

\* A piece of the document: where it starts (0-based) and its characters.
Piece(start, text) == [start |-> start, text |-> text]

Whitespace == {SP, LF}

\* str.strip() of a piece.
RECURSIVE Strip(_)
Strip(p) ==
    IF p.text = <<>> THEN p
    ELSE IF Head(p.text) \in Whitespace THEN Strip(Piece(p.start + 1, Tail(p.text)))
    ELSE IF p.text[Len(p.text)] \in Whitespace
    THEN Strip(Piece(p.start, SubSeq(p.text, 1, Len(p.text) - 1)))
    ELSE p

MatchesAt(text, sep, i) ==
    /\ i + Len(sep) - 1 <= Len(text)
    /\ SubSeq(text, i, i + Len(sep) - 1) = sep

Occurs(text, sep) == \E i \in 1..Len(text) : MatchesAt(text, sep, i)

NonEmpty(p) == p.text # <<>>

\* _split_text_with_regex with keep_separator: the text is cut before every
\* occurrence of the separator, which stays at the head of the piece that
\* follows; the empty separator cuts between all characters; empty pieces
\* are dropped.
RECURSIVE Cut(_, _, _, _, _)
Cut(p, sep, i, from, acc) ==
    LET piece == Piece(p.start + from - 1, SubSeq(p.text, from, i - 1)) IN
    IF i > Len(p.text) THEN SelectSeq(Append(acc, piece), NonEmpty)
    ELSE IF sep = <<>> THEN Cut(p, sep, i + 1, i, Append(acc, piece))
    ELSE IF MatchesAt(p.text, sep, i) THEN Cut(p, sep, i + Len(sep), i, Append(acc, piece))
    ELSE Cut(p, sep, i + 1, from, acc)

split_text_with_regex(p, sep) == Cut(p, sep, 1, 1, <<>>)

RECURSIVE Total(_)
Total(docs) == IF docs = <<>> THEN 0 ELSE Tokens(Head(docs).text) + Total(Tail(docs))

RECURSIVE Concat(_)
Concat(docs) == IF docs = <<>> THEN <<>> ELSE Head(docs).text \o Concat(Tail(docs))

MutJoinKeepsEmpty(docs) ==
    IF docs = <<>> THEN <<>> ELSE <<Strip(Piece(docs[1].start, Concat(docs)))>>

\* _join_docs: the pieces joined and stripped; nothing if that is empty.
join_docs(docs) ==
    IF docs = <<>> THEN <<>>
    ELSE LET text == Strip(Piece(docs[1].start, Concat(docs))) IN
         IF text.text = <<>> THEN <<>> ELSE <<text>>

MutPopKeepsAll(current_doc, len, chunk_size, chunk_overlap) == current_doc

\* _merge_splits, the while loop: pieces leave the front of current_doc
\* while it holds more than the overlap or the next piece does not fit.
RECURSIVE Pop(_, _, _, _)
Pop(current_doc, len, chunk_size, chunk_overlap) ==
    IF \/ Total(current_doc) > chunk_overlap
       \/ (Total(current_doc) + len > chunk_size /\ Total(current_doc) > 0)
    THEN Pop(Tail(current_doc), len, chunk_size, chunk_overlap)
    ELSE current_doc

\* _merge_splits with the separator "" that keep_separator gives it.
RECURSIVE merge_splits(_, _, _, _)
merge_splits(splits, current_doc, docs, sp) ==
    IF splits = <<>> THEN docs \o join_docs(current_doc)
    ELSE LET d == Head(splits)
             full == Total(current_doc) + Tokens(d.text) > sp.chunk_size
                       /\ current_doc # <<>>
         IN  merge_splits(Tail(splits),
                 Append(IF full
                        THEN Pop(current_doc, Tokens(d.text), sp.chunk_size, sp.chunk_overlap)
                        ELSE current_doc, d),
                 IF full THEN docs \o join_docs(current_doc) ELSE docs,
                 sp)

\* _split_text, the choice of the separator: the first of the list that is
\* empty or occurs in the text, and the separators after it.
RECURSIVE Choose(_, _, _)
Choose(text, separators, i) ==
    IF i > Len(separators)
    THEN [separator |-> separators[Len(separators)], new_separators |-> <<>>]
    ELSE IF separators[i] = <<>>
    THEN [separator |-> <<>>, new_separators |-> <<>>]
    ELSE IF Occurs(text, separators[i])
    THEN [separator |-> separators[i],
          new_separators |-> SubSeq(separators, i + 1, Len(separators))]
    ELSE Choose(text, separators, i + 1)

\* _split_text: pieces shorter than chunk_size are merged; any other piece
\* is split with the separators that remain or, when none remain, emitted
\* as it is.
RECURSIVE SplitText(_, _, _)
RECURSIVE Walk(_, _, _, _, _)
Walk(splits, good, final_chunks, new_separators, sp) ==
    LET merged == IF good = <<>> THEN <<>> ELSE merge_splits(good, <<>>, <<>>, sp) IN
    IF splits = <<>> THEN final_chunks \o merged
    ELSE LET s == Head(splits) IN
         IF Tokens(s.text) < sp.chunk_size
         THEN Walk(Tail(splits), Append(good, s), final_chunks, new_separators, sp)
         ELSE Walk(Tail(splits), <<>>,
                   final_chunks \o merged \o
                       (IF new_separators = <<>> THEN <<s>>
                        ELSE SplitText(s, new_separators, sp)),
                   new_separators, sp)

SplitText(p, separators, sp) ==
    LET c == Choose(p.text, separators, 1) IN
    Walk(split_text_with_regex(p, c.separator), <<>>, <<>>, c.new_separators, sp)

\* Line 235: split_documents([content]) with the splitter sp.
split_documents(text, sp) == SplitText(Piece(0, text), sp.separators, sp)

IdleChunk ==
    [pc |-> "idle", text |-> <<>>, chunk_size |-> 0, chunk_overlap |-> 0,
     separators |-> <<>>, documents |-> <<>>]

notChunk == <<rw, dw, dl, fs, server, req, clock, samples, remote, checked, vstore, hist,
              calls, env_model, indexes, objects, rcalls, qs, running, chains, reg, qr, up, bk>>

\* Lines 216-234 raise: the overlap is above the size.
ChunkRaises ==
    /\ ck.pc = "called"
    /\ ConstructorRaises(ck.chunk_size, ck.chunk_overlap)
    /\ ck' = [ck EXCEPT !.pc = "raised"]
    /\ UNCHANGED notChunk

\* Lines 216-236 return the documents.
ChunkReturns ==
    /\ ck.pc = "called"
    /\ ~ConstructorRaises(ck.chunk_size, ck.chunk_overlap)
    /\ LET text_splitter == from_tiktoken_encoder(Constructed, ck.chunk_size, ck.chunk_overlap)
       IN  ck' = [ck EXCEPT !.pc = "returned",
                            !.separators = text_splitter.separators,
                            !.documents = split_documents(ck.text, text_splitter)]
    /\ UNCHANGED notChunk

(***************************************************************************)
(* upload_files (upload.py 19-104).  A file is what the handler reads of   *)
(* an UploadFile: whether it has a name and a size, the name as the list   *)
(* filename.split(".") gives (the empty name is the empty list), and the   *)
(* size in bytes.                                                          *)
(***************************************************************************)
SUPPORT_FILE_TYPES == {"pdf", "tiff", "png", "jpeg", "txt"}

\* upload.py 65: 1000 * 1024 * 1024
FILE_SIZE_LIMIT == 1000 * 1024 * 1024

UploadNames == {<<>>, <<"a", "txt">>, <<"b", "PDF">>, <<"c", "exe">>}
UploadSizes == {0, 1, FILE_SIZE_LIMIT + 1}
UploadFiles ==
    {[named |-> TRUE, filename |-> f, sized |-> TRUE, size |-> z] :
        f \in UploadNames, z \in UploadSizes}
    \cup {[named |-> FALSE, filename |-> <<>>, sized |-> TRUE, size |-> 1],
          [named |-> TRUE, filename |-> <<"a", "txt">>, sized |-> FALSE, size |-> 0]}

\* str.lower() on the extensions of the model.
Lower(s) == IF s = "PDF" THEN "pdf" ELSE s

\* upload.py 60: file.filename.split(".")[-1].lower()
Extension(filename) == Lower(filename[Len(filename)])

MutClassifySizeFirst(file) ==
    IF ~file.named \/ ~file.sized THEN "missing"
    ELSE IF file.filename = <<>> \/ file.size = 0 THEN "empty"
    ELSE IF file.size > FILE_SIZE_LIMIT THEN "too_large"
    ELSE IF Extension(file.filename) \notin SUPPORT_FILE_TYPES THEN "unsupported"
    ELSE "upload"

\* upload.py 53-67: the checks, in the order of the code.
Classify(file) ==
    IF ~file.named \/ ~file.sized THEN "missing"
    ELSE IF file.filename = <<>> \/ file.size = 0 THEN "empty"
    ELSE IF Extension(file.filename) \notin SUPPORT_FILE_TYPES THEN "unsupported"
    ELSE IF file.size > FILE_SIZE_LIMIT THEN "too_large"
    ELSE "upload"

\* upload.py 130: presigned_get_object(bucket_name, file_name)
SignedUrl(client, project, filename) ==
    [bucket |-> <<client, "-", project>>, object |-> filename]

Line(category, names) == [category |-> category, count |-> Len(names), names |-> names]

\* upload.py 88-96: one sentence for every list that is not empty.
Sentence(category, names) == IF names = <<>> THEN <<>> ELSE <<Line(category, names)>>

\* upload.py 88-101
Details(u) ==
    LET details == Sentence("empty", u.empty_files)
                   \o Sentence("unsupported", u.unsupported_files)
                   \o Sentence("too_large", u.files_too_large)
                   \o Sentence("failed", u.failed_upload_files)
    IN  IF details = <<>>
        THEN <<"All files successfully uploaded.">>
        ELSE Append(details, Line("uploaded", u.successfully_uploaded_files))

IdleUpload ==
    [pc |-> "idle", files |-> <<>>, i |-> 0, log |-> <<>>,
     signed_urls |-> <<>>, empty_files |-> <<>>, unsupported_files |-> <<>>,
     files_too_large |-> <<>>, failed_upload_files |-> <<>>,
     successfully_uploaded_files |-> <<>>, details |-> <<>>, status |-> 0]

notUpload == <<rw, dw, dl, fs, server, req, clock, samples, remote, checked, vstore, hist,
               calls, env_model, indexes, objects, rcalls, qs, running, chains, reg, qr, ck, bk>>

\* upload.py 51-67: the checks of the next file.
UploadCheck ==
    /\ up.pc = "loop" /\ up.i <= Len(up.files)
    /\ LET file == up.files[up.i]
           class == Classify(file)
           skipped == [up EXCEPT !.i = @ + 1, !.log = Append(@, "checked")]
       IN  up' = CASE class = "missing" -> [up EXCEPT !.pc = "raised", !.status = 400]
                   [] class = "empty" ->
                        [skipped EXCEPT !.empty_files = Append(@, file.filename)]
                   [] class = "unsupported" ->
                        [skipped EXCEPT !.unsupported_files = Append(@, file.filename)]
                   [] class = "too_large" ->
                        [skipped EXCEPT !.files_too_large = Append(@, file.filename)]
                   [] OTHER -> [up EXCEPT !.pc = "bucket"]
    /\ UNCHANGED notUpload

\* upload.py 69-71: the bucket exists or was made.
UploadBucketReady ==
    /\ up.pc = "bucket"
    /\ up' = [up EXCEPT !.pc = "put"]
    /\ UNCHANGED notUpload

\* upload.py 72-75: checking or making the bucket failed twice; the request
\* ends with HTTPException(500).
UploadBucketFails ==
    /\ up.pc = "bucket"
    /\ up' = [up EXCEPT !.pc = "raised", !.status = 500]
    /\ UNCHANGED notUpload

\* upload.py 77-82: the object is stored and its URL signed.
UploadStored ==
    /\ up.pc = "put"
    /\ LET file == up.files[up.i] IN
       up' = [up EXCEPT !.pc = "loop", !.i = @ + 1, !.log = Append(@, "stored"),
                        !.signed_urls = Append(@, SignedUrl("acme", "p1", file.filename)),
                        !.successfully_uploaded_files = Append(@, file.filename)]
    /\ UNCHANGED notUpload

\* upload.py 83-85: the upload failed three times.
UploadFails ==
    /\ up.pc = "put"
    /\ up' = [up EXCEPT !.pc = "loop", !.i = @ + 1, !.log = Append(@, "failed"),
                        !.failed_upload_files = Append(@, up.files[up.i].filename)]
    /\ UNCHANGED notUpload

\* upload.py 87-104: the details and the response.
UploadResponds ==
    /\ up.pc = "loop" /\ up.i > Len(up.files)
    /\ up' = [up EXCEPT !.pc = "returned", !.status = 200, !.details = Details(up)]
    /\ UNCHANGED notUpload

(***************************************************************************)
(* _ensure_bucket_exists (upload.py 133-144), decorated at line 133 with   *)
(* async_retry: max_attempts 2, initial_delay 1, backoff 2.  The frame of  *)
(* the wrapper is rw; bk holds the bucket as Minio has it and the position *)
(* of the running attempt.  Each of the three Minio calls returns or       *)
(* raises; a call that raises has changed nothing.                         *)
(***************************************************************************)
BUCKET_MAX_ATTEMPTS == 2
BUCKET_INITIAL_DELAY == 1
BUCKET_BACKOFF_BASE == 2

IdleBucket ==
    [pc |-> "idle", bucket_name |-> <<>>, exists |-> FALSE, versioning |-> FALSE,
     log |-> <<>>]

notBucket == <<dw, dl, fs, server, req, clock, samples, remote, checked, vstore, hist,
               calls, env_model, indexes, objects, rcalls, qs, running, chains, reg, qr,
               ck, up>>

\* The call raised: the wrapper counts the attempt (decorators.py 28-36).
BucketCallRaises(call) ==
    /\ rw' = OnException(rw, Error("transient", rw.calls))
    /\ bk' = [bk EXCEPT !.pc = "idle", !.log = Append(@, <<call, "raised">>)]

\* upload.py 142: bucket_exists(bucket_name) returns.
BucketExistsReturns ==
    /\ rw.status = "calling" /\ bk.pc = "bucket_exists"
    /\ IF bk.exists
       THEN /\ rw' = OnSuccess(rw, None)
            /\ bk' = [bk EXCEPT !.pc = "idle", !.log = Append(@, <<"bucket_exists", "true">>)]
       ELSE /\ rw' = rw
            /\ bk' = [bk EXCEPT !.pc = "make_bucket",
                                !.log = Append(@, <<"bucket_exists", "false">>)]
    /\ UNCHANGED notBucket

BucketExistsRaises ==
    /\ rw.status = "calling" /\ bk.pc = "bucket_exists"
    /\ BucketCallRaises("bucket_exists")
    /\ UNCHANGED notBucket

\* upload.py 143: make_bucket(bucket_name) returns.
MakeBucketReturns ==
    /\ rw.status = "calling" /\ bk.pc = "make_bucket"
    /\ bk' = [bk EXCEPT !.pc = "set_bucket_versioning", !.exists = TRUE,
                        !.log = Append(@, <<"make_bucket", "made">>)]
    /\ rw' = rw
    /\ UNCHANGED notBucket

MakeBucketRaises ==
    /\ rw.status = "calling" /\ bk.pc = "make_bucket"
    /\ BucketCallRaises("make_bucket")
    /\ UNCHANGED notBucket

\* upload.py 144: set_bucket_versioning(bucket_name, VersioningConfig(ENABLED))
\* returns, and with it the function.
SetVersioningReturns ==
    /\ rw.status = "calling" /\ bk.pc = "set_bucket_versioning"
    /\ bk' = [bk EXCEPT !.pc = "idle", !.versioning = TRUE,
                        !.log = Append(@, <<"set_bucket_versioning", "enabled">>)]
    /\ rw' = OnSuccess(rw, None)
    /\ UNCHANGED notBucket

SetVersioningRaises ==
    /\ rw.status = "calling" /\ bk.pc = "set_bucket_versioning"
    /\ BucketCallRaises("set_bucket_versioning")
    /\ UNCHANGED notBucket

\* decorators.py 36-37, 25: the sleep ends and the function is called again.
BucketSleepEnds ==
    /\ rw.status = "sleeping"
    /\ rw' = AfterSleep(rw)
    /\ bk' = [bk EXCEPT !.pc = IF rw'.status = "calling" THEN "bucket_exists" ELSE "idle"]
    /\ UNCHANGED notBucket

(***************************************************************************)
(* The specifications.                                                     *)
(***************************************************************************)
Servers == {[resource |-> Resource(len), ranges |-> r] : len \in 0..MaxLen, r \in BOOLEAN}

IdleIngest ==
    /\ req = IdleRequest
    /\ clock = 0
    /\ samples = ShippedSamples
    /\ remote = {}
    /\ checked = <<>>
    /\ vstore = {}
    /\ hist = {}
    /\ calls = NoCalls
    /\ env_model = "text-embedding-3-small"
    /\ indexes = <<>>
    /\ objects = 0
    /\ rcalls = NoRemoteCalls
    /\ qs = NoRequests
    /\ running = Free
    /\ chains = <<>>
    /\ reg = NoHistory
    /\ qr = IdleQueryRequest
    /\ bk = IdleBucket
    /\ ck = IdleChunk /\ up = IdleUpload

InitRetry ==
    /\ RetryInit
    /\ dw = IdleFrame /\ dl = IdleDownload /\ fs = EmptyFs
    /\ server = [resource |-> <<>>, ranges |-> TRUE]
    /\ IdleIngest

NextRetry == OpReturns \/ OpRaises \/ SleepEnds

SpecRetry == InitRetry /\ [][NextRetry]_vars

InitFetch ==
    /\ rw = IdleFrame
    /\ dw = WrapperStart(DOWNLOAD_MAX_ATTEMPTS, DOWNLOAD_INITIAL_DELAY, DOWNLOAD_BACKOFF_BASE)
    /\ \E file_name \in FileNames : dl = [IdleDownload EXCEPT !.file_path = FilePath(1, file_name)]
    /\ fs = EmptyFs
    /\ server \in Servers
    /\ IdleIngest

NextFetch ==
    \/ DownloadBegin
    \/ DownloadResponse
    \/ DownloadRequestFails
    \/ DownloadBlock
    \/ DownloadStreamFails
    \/ DownloadComplete
    \/ DownloadSleepEnds

SpecFetch == InitFetch /\ [][NextFetch]_vars

Init ==
    /\ rw = IdleFrame
    /\ dw = IdleFrame /\ dl = IdleDownload /\ fs = EmptyFs
    /\ server = [resource |-> Resource(1), ranges |-> TRUE]
    /\ IdleIngest

Next ==
    \/ IngestStart
    \/ NextFetch
    \/ IngestDownloadFailed
    \/ IngestDownloaded
    \/ ExtractReturns
    \/ ExtractMemoryError
    \/ ExtractRaises
    \/ RemoveArtifact
    \/ ChunkAndLabel
    \/ CheckIndexReturns
    \/ CheckIndexRaises
    \/ UpsertReturns
    \/ UpsertRaises
    \/ Respond
    \/ IngestEnd

Spec == Init /\ [][Next]_vars

\* Requests one after the other, the content extracted for a source name
\* changing between them.
NextReingest ==
    \/ Next
    \/ SampleReplaced

SpecReingest == Init /\ [][NextReingest]_vars

NextPaths ==
    \E c \in CallIds :
        \/ CallStart(c)
        \/ CallOpen(c)
        \/ CallBlock(c)
        \/ CallRename(c)
        \/ CallRenameRaises(c)
        \/ CallRemove(c)
        \/ CallRemoveRaises(c)

SpecPaths == Init /\ [][NextPaths]_vars

\* The configured model is any of EnvModels and any of the clients' indexes
\* may exist already.
InitRace ==
    /\ rw = IdleFrame
    /\ dw = IdleFrame /\ dl = IdleDownload /\ fs = EmptyFs
    /\ server = [resource |-> <<>>, ranges |-> TRUE]
    /\ req = IdleRequest /\ clock = 0 /\ samples = ShippedSamples
    /\ vstore = {} /\ hist = {} /\ calls = NoCalls
    /\ env_model \in EnvModels
    /\ remote \in SUBSET Clients
    /\ checked = <<>>
    /\ indexes = <<>>
    /\ objects = 0
    /\ rcalls = [NoRemoteCalls EXCEPT !.initial = remote]
    /\ qs = NoRequests
    /\ running = Free
    /\ chains = <<>>
    /\ reg = NoHistory
    /\ qr = IdleQueryRequest
    /\ bk = IdleBucket
    /\ ck = IdleChunk /\ up = IdleUpload

NextRace ==
    \/ \E r \in RaceIds :
        \/ RaceStart(r)
        \/ GetIndexCall(r)
        \/ GetIndexResume(r)
        \/ CheckIndexCall(r)
        \/ CheckIndexListed(r)
        \/ CheckIndexListRaises(r)
        \/ CheckIndexCreated(r)
        \/ CheckIndexCreateRaises(r)
    \/ \E t \in Clients :
        \/ TaskBegin(t)
        \/ TaskListed(t)
        \/ TaskListRaises(t)
        \/ TaskCreated(t)
        \/ TaskCreateRaises(t)

SpecRace == InitRace /\ [][NextRace]_vars

\* The process serves query requests or ingest requests.
InitRegistry ==
    /\ rw = IdleFrame
    /\ dw = IdleFrame /\ dl = IdleDownload /\ fs = EmptyFs
    /\ server = [resource |-> <<>>, ranges |-> TRUE]
    /\ req = IdleRequest /\ clock = 0 /\ samples = ShippedSamples
    /\ vstore = {} /\ hist = {} /\ calls = NoCalls
    /\ env_model = "text-embedding-3-small"
    /\ remote = {}
    /\ checked = <<>>
    /\ indexes = <<>>
    /\ objects = 0
    /\ rcalls = NoRemoteCalls
    /\ qs = NoRequests
    /\ running = Free
    /\ chains = <<>>
    /\ \E kind \in {"query", "ingest"} : reg = [NoHistory EXCEPT !.kind = kind]
    /\ qr = IdleQueryRequest
    /\ bk = IdleBucket
    /\ ck = IdleChunk /\ up = IdleUpload

NextRegistry ==
    \E t \in RegClients :
        \/ QueryHit(t)
        \/ QueryMiss(t)
        \/ IngestHit(t)
        \/ IngestMiss(t)
        \/ DeleteOutOfBand(t)

SpecRegistry == InitRegistry /\ [][NextRegistry]_vars

\* One process serves query and ingest requests, and nobody else deletes an
\* index.
InitTenants ==
    /\ rw = IdleFrame
    /\ dw = IdleFrame /\ dl = IdleDownload /\ fs = EmptyFs
    /\ server = [resource |-> <<>>, ranges |-> TRUE]
    /\ req = IdleRequest /\ clock = 0 /\ samples = ShippedSamples
    /\ vstore = {} /\ hist = {} /\ calls = NoCalls
    /\ env_model = "text-embedding-3-small"
    /\ remote = {}
    /\ checked = <<>>
    /\ indexes = <<>>
    /\ objects = 0
    /\ rcalls = NoRemoteCalls
    /\ qs = NoRequests
    /\ running = Free
    /\ chains = <<>>
    /\ reg = [NoHistory EXCEPT !.kind = "both"]
    /\ qr = IdleQueryRequest
    /\ bk = IdleBucket
    /\ ck = IdleChunk /\ up = IdleUpload

NextTenants ==
    \E t \in RegClients :
        \/ QueryHit(t)
        \/ QueryMiss(t)
        \/ IngestHit(t)
        \/ IngestMiss(t)

SpecTenants == InitTenants /\ [][NextTenants]_vars

\* The store holds the fragments of any set of ingests.
InitQuery ==
    /\ rw = IdleFrame
    /\ dw = IdleFrame /\ dl = IdleDownload /\ fs = EmptyFs
    /\ server = [resource |-> <<>>, ranges |-> TRUE]
    /\ req = IdleRequest /\ clock = 0 /\ samples = ShippedSamples
    /\ hist = {} /\ calls = NoCalls
    /\ env_model = "text-embedding-3-small"
    /\ remote = Clients
    /\ checked = <<>>
    /\ indexes = <<>>
    /\ objects = 0
    /\ rcalls = NoRemoteCalls
    /\ qs = NoRequests
    /\ running = Free
    /\ chains = <<>>
    /\ reg = NoHistory
    /\ qr = IdleQueryRequest
    /\ bk = IdleBucket
    /\ ck = IdleChunk /\ up = IdleUpload
    /\ \E S \in SUBSET Ingests : vstore = StoreOf(S)

NextQuery ==
    \/ QueryStart
    \/ QueryRetrieved
    \/ QueryGenerated
    \/ QueryShapeError
    \/ QueryInvokeRaises
    \/ QueryReturns

SpecQuery == InitQuery /\ [][NextQuery]_vars

InitChunk ==
    /\ rw = IdleFrame
    /\ dw = IdleFrame /\ dl = IdleDownload /\ fs = EmptyFs
    /\ server = [resource |-> <<>>, ranges |-> TRUE]
    /\ req = IdleRequest /\ clock = 0 /\ samples = ShippedSamples
    /\ hist = {} /\ calls = NoCalls
    /\ env_model = "text-embedding-3-small"
    /\ remote = Clients
    /\ checked = <<>>
    /\ indexes = <<>>
    /\ objects = 0
    /\ rcalls = NoRemoteCalls
    /\ qs = NoRequests
    /\ running = Free
    /\ chains = <<>>
    /\ reg = NoHistory
    /\ qr = IdleQueryRequest
    /\ bk = IdleBucket
    /\ up = IdleUpload
    /\ vstore = {}
    /\ \E text \in Texts, chunk_size \in 1..MaxChunkSize, chunk_overlap \in 0..MaxChunkSize :
        ck = [IdleChunk EXCEPT !.pc = "called", !.text = text,
                               !.chunk_size = chunk_size, !.chunk_overlap = chunk_overlap]

NextChunk ==
    \/ ChunkRaises
    \/ ChunkReturns

SpecChunk == InitChunk /\ [][NextChunk]_vars

InitUpload ==
    /\ rw = IdleFrame
    /\ dw = IdleFrame /\ dl = IdleDownload /\ fs = EmptyFs
    /\ server = [resource |-> <<>>, ranges |-> TRUE]
    /\ req = IdleRequest /\ clock = 0 /\ samples = ShippedSamples
    /\ hist = {} /\ calls = NoCalls
    /\ env_model = "text-embedding-3-small"
    /\ remote = Clients
    /\ checked = <<>>
    /\ indexes = <<>>
    /\ objects = 0
    /\ rcalls = NoRemoteCalls
    /\ qs = NoRequests
    /\ running = Free
    /\ chains = <<>>
    /\ reg = NoHistory
    /\ qr = IdleQueryRequest
    /\ bk = IdleBucket
    /\ ck = IdleChunk
    /\ vstore = {}
    /\ \E files \in BoundedSeq(UploadFiles, MaxFiles) :
        up = [IdleUpload EXCEPT !.pc = "loop", !.files = files, !.i = 1]

NextUpload ==
    \/ UploadCheck
    \/ UploadBucketReady
    \/ UploadBucketFails
    \/ UploadStored
    \/ UploadFails
    \/ UploadResponds

SpecUpload == InitUpload /\ [][NextUpload]_vars

\* The bucket of a client and project does not exist, or was made and
\* versioned by an earlier request.
InitBucket ==
    /\ dw = IdleFrame /\ dl = IdleDownload /\ fs = EmptyFs
    /\ server = [resource |-> <<>>, ranges |-> TRUE]
    /\ req = IdleRequest /\ clock = 0 /\ samples = ShippedSamples
    /\ hist = {} /\ calls = NoCalls
    /\ env_model = "text-embedding-3-small"
    /\ remote = Clients
    /\ checked = <<>>
    /\ indexes = <<>>
    /\ objects = 0
    /\ rcalls = NoRemoteCalls
    /\ qs = NoRequests
    /\ running = Free
    /\ chains = <<>>
    /\ reg = NoHistory
    /\ qr = IdleQueryRequest
    /\ up = IdleUpload
    /\ ck = IdleChunk
    /\ vstore = {}
    /\ rw = WrapperStart(BUCKET_MAX_ATTEMPTS, BUCKET_INITIAL_DELAY, BUCKET_BACKOFF_BASE)
    /\ \E client \in Clients, project \in QueryProjects, made \in BOOLEAN :
        bk = [IdleBucket EXCEPT !.pc = "bucket_exists",
                                !.bucket_name = <<client, "-", project>>,
                                !.exists = made, !.versioning = made]

NextBucket ==
    \/ BucketExistsReturns
    \/ BucketExistsRaises
    \/ MakeBucketReturns
    \/ MakeBucketRaises
    \/ SetVersioningReturns
    \/ SetVersioningRaises
    \/ BucketSleepEnds

SpecBucket == InitBucket /\ [][NextBucket]_vars

(***************************************************************************)
(* Properties.                                                             *)
(***************************************************************************)
IsPrefix(s, t) == Len(s) <= Len(t) /\ SubSeq(t, 1, Len(s)) = s

C2_Exhaustion ==
    /\ rw.calls <= rw.max_attempts
    /\ rw.status = "raised" =>
         /\ rw.calls = rw.max_attempts
         /\ Len(rw.errors) = rw.max_attempts
         /\ Len(rw.sleeps) = rw.max_attempts - 1
         /\ rw.detail = rw.errors[rw.max_attempts]
         /\ rw.detail.attempt = rw.max_attempts
    /\ rw.status = "returned" =>
         /\ rw.result = "value"
         /\ rw.calls = Len(rw.errors) + 1

C2_Witness ==
    rw.status = "raised" /\ rw.max_attempts = 3 /\ rw.calls = 3 /\ Len(rw.sleeps) = 2

\* C3 as stated: once an invocation fails with a caller error the operation
\* is not invoked again and no sleep follows: the error is surfaced at once.
C3_CallerErrorNotRetried ==
    \A i \in 1..Len(rw.errors) :
        rw.errors[i].kind = "caller" =>
            /\ rw.status = "raised"
            /\ rw.calls = i
            /\ Len(rw.sleeps) = i - 1

\* The environment's interruptions of the fetch: the errors that are not the
\* server's answer to the request sent.
Interruptions == {i \in 1..Len(dw.errors) : dw.errors[i].kind # "416"}

PartialPath == with_suffix(dl.file_path, PARTIAL_SUFFIX)

\* C4 as stated: against a server that honours Range, a fetch interrupted
\* once (after k bytes were written, any k in 0..L) and then re-invoked
\* places the complete resource at the destination.
C4_ResumedFetchCompletes ==
    (/\ server.ranges
     /\ dw.status \in {"returned", "raised"}
     /\ Cardinality(Interruptions) = 1)
        => /\ dl.file_path \in DOMAIN fs
           /\ fs[dl.file_path] = server.resource

\* C5 as stated: the destination exists only holding the complete resource,
\* a partial file exists only while the destination does not, and when the
\* attempts are exhausted the failure carries the last cause and the
\* destination does not exist.
C5_DestinationComplete ==
    /\ dl.file_path \in DOMAIN fs => fs[dl.file_path] = server.resource
    /\ PartialPath \in DOMAIN fs => dl.file_path \notin DOMAIN fs
    /\ dw.status = "raised" =>
         /\ dw.detail = dw.errors[Len(dw.errors)]
         /\ dl.file_path \notin DOMAIN fs

\* C6 as stated: the request of an attempt carries Range: bytes=s- with s
\* the size of the partial file whenever that file exists, and no Range
\* header when it does not; an existing partial file is opened for append.
C6_RangeWheneverPartialExists ==
    dl.pc = "get" =>
        IF PartialPath \in DOMAIN fs
        THEN dl.headers = <<Len(fs[PartialPath])>> /\ dl.mode = "ab"
        ELSE dl.headers = <<>> /\ dl.mode = "wb"

\* A step keeps the bytes of the partial file and may append to them, or
\* renames the file to the destination.
PartialKept ==
    PartialPath \in DOMAIN fs =>
        \/ /\ PartialPath \in DOMAIN fs'
           /\ IsPrefix(fs[PartialPath], fs'[PartialPath])
        \/ /\ dl.file_path \in DOMAIN fs'
           /\ fs'[dl.file_path] = fs[PartialPath]

\* C6 amended: the request of an attempt carries Range: bytes=s- with s the
\* size of the partial file when that file exists and is not empty, and no
\* Range header when it is absent or empty; an existing partial file is
\* opened for append, never truncated; and no step of a fetch changes bytes
\* already in the partial file: it keeps them and appends, or renames the
\* file to the destination.
C6_ResumeFromPartial ==
    /\ [](dl.pc = "get" =>
            /\ dl.partial_file = PartialPath
            /\ IF PartialPath \in DOMAIN fs /\ Len(fs[PartialPath]) > 0
               THEN dl.headers = <<Len(fs[PartialPath])>>
               ELSE dl.headers = <<>>
            /\ dl.mode = (IF PartialPath \in DOMAIN fs THEN "ab" ELSE "wb"))
    /\ [][PartialKept]_vars

C6_Witness ==
    /\ dl.pc = "stream" /\ dw.calls = 2 /\ dl.mode = "ab"
    /\ dl.headers = <<1>> /\ dl.body = <<>>
    /\ Len(server.resource) = 2 /\ fs[PartialPath] = server.resource

\* C7: labeling n fragments gives n ids and n fragments, index-aligned; the
\* i-th fragment keeps its content and gets exactly the metadata name,
\* chunk_id = i (from 0) and timestamp; ids[i] is the hash of "{i}_{name}";
\* two labelings of the same name and length give the same ids whatever
\* their timestamps.
C7_Labeling ==
    /\ req.pc \in {"check_index", "upsert", "respond"} =>
         /\ Len(req.ids) = Len(req.chunks)
         /\ Len(req.documents) = Len(req.chunks)
         /\ \A i \in 1..Len(req.chunks) :
              /\ req.documents[i].page_content = req.chunks[i].page_content
              /\ DOMAIN req.documents[i].metadata = {"name", "chunk_id", "timestamp"}
              /\ req.documents[i].metadata.name = req.file_name
              /\ req.documents[i].metadata.chunk_id = i - 1
              /\ req.documents[i].metadata.timestamp = req.timestamp
              /\ req.ids[i] = hash_string(Digits(i - 1) \o <<95>> \o req.file_name)
    /\ \A g \in hist, h \in hist :
         (g.labeled /\ h.labeled /\ g.file_name = h.file_name
            /\ Len(g.ids) = Len(h.ids)) => g.ids = h.ids

C7_Witness ==
    /\ req.pc = "check_index" /\ Len(req.ids) = 2
    /\ \E h \in hist : h.labeled /\ h.file_name = req.file_name /\ Len(h.ids) = 2

\* The entries stored for a source name in a tenant's namespace.
StoredFor(client, project, file_name) ==
    {e \in vstore : e.index = client /\ e.namespace = project
                    /\ e.metadata.name = file_name}

\* C8: once a request for a source name has stored all its fragments, the
\* ids stored for that name in that tenant's namespace are exactly the ids
\* of that one ingestion, one entry each, whatever other requests (failed or
\* repeated, for this or another name) did before or after.
C8_ReingestOverwrites ==
    \A h \in hist :
        h.upserted =>
            LET stored == StoredFor(h.client, h.project, h.file_name) IN
            /\ {e.id : e \in stored} = {h.ids[i] : i \in 1..Len(h.ids)}
            /\ Cardinality(stored) = Len(h.ids)

C8_Witness ==
    \E g \in hist, h \in hist :
        /\ g.upserted /\ Len(g.ids) = 2
        /\ h.client = g.client /\ h.project = g.project /\ h.file_name = g.file_name
        /\ h.timestamp > g.timestamp /\ h.labeled
        /\ \E e \in StoredFor(g.client, g.project, g.file_name) :
             e.metadata.timestamp = h.timestamp

\* C9 as stated: when a request whose download succeeded ends, the
\* downloaded artifact is gone, whatever the later steps did.
C9_ArtifactRemoved ==
    (req.pc = "done" /\ req.downloaded) => req.file_path \notin DOMAIN fs

\* C10 as stated: the upsert is attempted up to 3 times: a request ends
\* with an upsert failure only after 3 failed upsert attempts.
C10_UpsertRetried ==
    (req.pc = "done" /\ req.outcome = "upsert_failed") => req.upsert_calls = 3

\* The paths a running call uses.
PathsOf(c) ==
    IF calls[c].pc \in {"idle", "done", "rename_failed", "remove_failed"} THEN {}
    ELSE {calls[c].file_path, calls[c].partial_file}

\* C11 as stated: two calls running at the same time use distinct paths,
\* destination and partial file alike, and no file holds bytes written by
\* two calls.
C11_PathsDistinct ==
    /\ \A c \in CallIds, d \in CallIds : c # d => PathsOf(c) \cap PathsOf(d) = {}
    /\ \A p \in DOMAIN fs : \A i \in 1..Len(fs[p]) : fs[p][i] = fs[p][1]

\* The requests for client t that have got their index.
Returned(t) == {r \in RaceIds : qs[r].client = t /\ qs[r].pc = "returned"}

CreateFailed(t) == \E r \in RaceIds : qs[r].client = t /\ qs[r].error = "PineconeException"

C15_UnknownModelIsError ==
    DimensionRaises(env_model) =>
        /\ \A r \in RaceIds : qs[r].pc # "returned"
        /\ rcalls.create = NoCount
        /\ \A t \in Clients :
             Count(rcalls.list, t) <= Cardinality({r \in RaceIds : qs[r].client = t})

\* The thread is held for a call made for another client than that of r.
HeldForOther(r) ==
    \/ \E t \in Clients \ {qs[r].client} : running = Task(t)
    \/ \E d \in RaceIds : qs[d].client # qs[r].client /\ running = Request(d)

\* C16 as stated: while the listing or creation for one client is in
\* flight, a request that has arrived for another client can take its step.
C16_OtherClientProceeds ==
    \A r \in RaceIds :
        (qs[r].pc = "enter" /\ HeldForOther(r)) =>
            ENABLED (GetIndexCall(r) \/ CheckIndexCall(r))

\* The keys memoized by the registry the process uses, least recently used first.
Memoized ==
    IF reg.kind = "query" THEN [i \in 1..Len(indexes) |-> indexes[i].key] ELSE checked

IsMemoized(t) == \E i \in 1..Len(Memoized) : Memoized[i] = t

\* The step is a request for client t.
RequestFor(t) == reg'.n = reg.n + 1 /\ reg'.tenant = t

\* C13 as stated: for every client, however many clients are served, the
\* creation path (listing the remote indexes, constructing the handle) runs
\* at most once.
C13_CreationPathOnce ==
    \A t \in RegClients : Count(rcalls.list, t) <= 1

LeastRecentFirst ==
    LET n == Len(reg.lastuse)
        m == IF n < INDEX_CACHE_MAXSIZE THEN n ELSE INDEX_CACHE_MAXSIZE
    IN  Memoized = SubSeq(reg.lastuse, n - m + 1, n)

HitIsLocal ==
    \A t \in RegClients :
        (RequestFor(t) /\ IsMemoized(t)) =>
            rcalls' = rcalls /\ remote' = remote /\ objects' = objects

\* C14: the registry memoizes at most 8 clients, which are always the 8
\* most recently requested ones (so the entry evicted for a further client
\* is the least recently used one), and a request for a memoized client
\* makes no list_indexes or create_index call.
C14_BoundedLru ==
    /\ [](Len(Memoized) <= INDEX_CACHE_MAXSIZE /\ LeastRecentFirst)
    /\ [][HitIsLocal]_vars

C14_Witness ==
    /\ reg.seen = MaxClients /\ reg.tenant = 1 /\ reg.repeats = 2
    /\ Len(Memoized) = INDEX_CACHE_MAXSIZE
    /\ reg.lastuse[1] = 2
    /\ Count(rcalls.list, 1) = 1

StaleStep ==
    \A t \in RegClients :
        (RequestFor(t) /\ t <= reg.seen /\ t \notin remote) =>
            IF IsMemoized(t)
            THEN rcalls' = rcalls /\ remote' = remote
            ELSE /\ Count(rcalls'.list, t) = Count(rcalls.list, t) + 1
                 /\ Count(rcalls'.create, t) = Count(rcalls.create, t) + 1
                 /\ t \in remote'

\* C17: after the index of a served client was deleted out of band, a
\* request for the client while it is memoized makes no list_indexes or
\* create_index call and leaves the index missing; a request for it once
\* it is no longer memoized lists the indexes and creates the index again.
C17_StaleUntilEvicted == [][StaleStep]_vars

C17_Witness ==
    \E t \in RegClients :
        t \in reg.stale /\ t \in remote /\ Count(rcalls.create, t) = 2

\* C18 as stated: while the pipeline cache has not reached its capacity,
\* the pipeline of a (client, project, source name, prompt) key is built
\* once, whatever happened to the client's index handle in between.
C18_PipelineBuiltOnce ==
    Len(chains) < CHAIN_CACHE_MAXSIZE =>
        \A t \in RegClients : Count(reg.builds, t) <= 1

\* C19: a query that returns gives the text the model produced as answer
\* and, as context, the contents of the fragments the search ranked best,
\* one string per fragment, in rank order, min(k, matches) of them, k = 3.
C19_AnswerAndContext ==
    qr.pc = "returned" =>
        LET n == Len(qr.ranked)
            m == IF n < TOP_K THEN n ELSE TOP_K
        IN  /\ qr.answer = qr.generated
            /\ n = Cardinality(StoredFor(qr.client, qr.project, qr.file_name))
            /\ Len(qr.context) = m
            /\ \A i \in 1..m : qr.context[i] = qr.ranked[i].page_content

C19_Witness ==
    /\ qr.pc = "returned" /\ qr.answer = "an answer"
    /\ Len(qr.ranked) = TOP_K + 1 /\ Len(qr.context) = TOP_K
    /\ qr.ranked[1].metadata.chunk_id = 2

\* The contents of the fragments stored for the request's client, project
\* and source name.
OwnContents == {e.page_content : e \in StoredFor(qr.client, qr.project, qr.file_name)}

\* C20: every context string returned, and every fragment content given to
\* the model, is the content of a fragment stored in the client's index, in
\* the namespace project, under the requested source name.
C20_OnlyOwnFragments ==
    /\ \A i \in 1..Len(qr.context) : qr.context[i] \in OwnContents
    /\ \A i \in 1..Len(qr.prompt_context) :
         qr.prompt_context[i] = "\n\n" \/ qr.prompt_context[i] \in OwnContents

C20_Witness ==
    /\ qr.pc = "returned" /\ Len(qr.context) = TOP_K - 1
    /\ \E e \in vstore : e.index # qr.client
    /\ \E e \in vstore : e.index = qr.client /\ e.namespace # qr.project
    /\ \E e \in vstore : /\ e.index = qr.client /\ e.namespace = qr.project
                         /\ e.metadata.name # qr.file_name

\* C21: when a remote service rejects the credentials, the caller receives
\* an unauthorized outcome that differs from the generic failure.  Here: an
\* ingest whose upsert was rejected for its credentials ends "unauthorized".
C21_UnauthorizedIsDistinct ==
    (req.pc = "done" /\ req.upsert_calls > 0 /\ req.detail \in CredentialErrors)
        => req.outcome = "unauthorized"

\* The invocation handed back an answer that is not a str or a context that
\* is not a list.
Misshapen == qr.shape.answer # "str" \/ qr.shape.context # "list"

ShapeErrorStep ==
    (qr.pc = "respond" /\ Misshapen) => qr'.pc = "type_error"

\* C22: when the invocation's answer is not a string or its context is not
\* a list, the query never returns a response (answer and context stay
\* unset), and the step after the invocation ends the request with the
\* shape error: the chain is not invoked again.
C22_ShapeErrorIsFatal ==
    /\ [](Misshapen => /\ qr.pc # "returned"
                       /\ qr.answer = None /\ qr.context = <<>>)
    /\ [][ShapeErrorStep]_vars

C22_Witness ==
    /\ qr.pc = "type_error"
    /\ qr.shape.answer = "str" /\ qr.shape.context = "other"
    /\ qr.generated = "an answer" /\ Len(qr.docs) = TOP_K

\* C23: an ingest whose upsert succeeded returns a summary: the response
\* model is built, from the ids, the timestamp, the source name and the
\* details it requires.
C23_SuccessReturnsSummary ==
    (req.pc = "done" /\ req.upserted) =>
        /\ req.outcome = "ok"
        /\ {"ids", "timestamp", "file_name"} \subseteq ResponseGiven

\* The fragments a finished call emitted.
Fragments == {ck.documents[i] : i \in 1..Len(ck.documents)}

\* Every character of the text fits the size on its own.
CharactersFit == \A i \in 1..Len(ck.text) : TokenCount(ck.text[i]) <= ck.chunk_size

C25_SplitsWithStatedSeparators ==
    ck.pc = "returned" =>
        /\ ck.separators = SEPARATORS
        /\ ck.documents =
             split_documents(ck.text, Splitter(SEPARATORS, ck.chunk_size, ck.chunk_overlap))

\* C26: the fragments are in document order (no fragment starts before the
\* one emitted before it), none is empty, each is the text found at its
\* place in the document, and the empty text gives no fragment.
C26_OrderedNonEmpty ==
    ck.pc = "returned" =>
        /\ \A i \in 1..Len(ck.documents) :
             LET f == ck.documents[i] IN
             /\ f.text # <<>>
             /\ f.text = SubSeq(ck.text, f.start + 1, f.start + Len(f.text))
             /\ i > 1 => ck.documents[i - 1].start <= f.start
        /\ ck.text = <<>> => ck.documents = <<>>

C26_Witness ==
    /\ ck.pc = "returned" /\ ck.chunk_size = 2 /\ ck.chunk_overlap = 1
    /\ ck.text = <<LetterA, SP, LetterA, LetterA>>
    /\ Len(ck.documents) = 3
    /\ ck.documents[2].start = 2 /\ ck.documents[3].start = 2

\* The outcome the claim gives the i-th file: the first of empty,
\* unsupported extension and too large that applies, else what the upload
\* did.
ExpectedOutcome(i) ==
    LET file == up.files[i] IN
    IF file.filename = <<>> \/ file.size = 0 THEN "empty"
    ELSE IF Lower(file.filename[Len(file.filename)]) \notin SUPPORT_FILE_TYPES
    THEN "unsupported"
    ELSE IF file.size > FILE_SIZE_LIMIT THEN "too_large"
    ELSE IF up.log[i] = "stored" THEN "uploaded"
    ELSE "failed"

\* The names of the files with an outcome, in input order.
RECURSIVE NamesWith(_, _)
NamesWith(outcome, n) ==
    IF n = 0 THEN <<>>
    ELSE IF ExpectedOutcome(n) = outcome
    THEN Append(NamesWith(outcome, n - 1), up.files[n].filename)
    ELSE NamesWith(outcome, n - 1)

Listed(outcome) == NamesWith(outcome, Len(up.files))

Mentions(category) == \E k \in 1..Len(up.details) - 1 : up.details[k].category = category

IngestOrder ==
    {<<"idle", "download">>, <<"download", "ocr">>, <<"ocr", "remove">>,
     <<"remove", "chunk">>, <<"chunk", "check_index">>, <<"check_index", "upsert">>,
     <<"upsert", "respond">>, <<"respond", "done">>, <<"done", "idle">>}
    \cup {<<pc, "done">> : pc \in {"download", "ocr", "chunk", "check_index", "upsert"}}

OrderStep ==
    /\ req'.pc # req.pc => <<req.pc, req'.pc>> \in IngestOrder
    /\ (remote' # remote \/ checked' # checked) =>
          req.pc = "check_index" /\ req.downloaded /\ req.documents = Label(req.chunks, req.file_name, req.timestamp).docs
    /\ vstore' # vstore =>
          req.pc = "upsert" /\ req.downloaded /\ req.client \in remote

\* C28: one ingest goes through fetch, extract, remove the artifact, chunk
\* and label, resolve the index, upsert, in this order; the index is listed
\* or created, and vectors are stored, only by a request whose download
\* completed; vectors are stored only when the client's index exists.
C28_IngestOrder ==
    /\ [](req.pc \in {"ocr", "remove", "chunk", "check_index", "upsert", "respond"}
            => req.downloaded)
    /\ [](req.pc \in {"upsert", "respond"} => req.client \in remote)
    /\ [][OrderStep]_vars

C28_Witness ==
    /\ req.pc = "respond" /\ req.upserted /\ req.downloaded
    /\ req.client \in remote /\ Len(req.ids) = 2
    /\ \E h \in hist : h.client # req.client /\ ~h.upserted

\* A step that issues create_index for a client lists the indexes in the
\* same step, and the listing does not name the client.
CreateStep ==
    \A t \in RegClients :
        Count(rcalls'.create, t) > Count(rcalls.create, t) =>
            /\ t \notin remote
            /\ Count(rcalls'.list, t) = Count(rcalls.list, t) + 1

C30_NoFileLeft ==
    (req.pc = "done" /\ req.outcome \in {"ok", "download_failed"}) =>
        /\ req.file_path \notin DOMAIN fs
        /\ with_suffix(req.file_path, PARTIAL_SUFFIX) \notin DOMAIN fs

\* The number of fragments the retrieval returned: the k best of the ranking.
Retrieved == IF Len(qr.ranked) < TOP_K THEN Len(qr.ranked) ELSE TOP_K

\* The context is the contents of the retrieved fragments in rank order
\* with "\n\n" between each two.
JoinedInRankOrder(context) ==
    /\ Len(context) = (IF Retrieved = 0 THEN 0 ELSE 2 * Retrieved - 1)
    /\ \A i \in 1..Retrieved : context[2 * i - 1] = qr.ranked[i].page_content
    /\ \A i \in 1..Retrieved - 1 : context[2 * i] = "\n\n"

GenerationStep ==
    qr'.llm_calls # qr.llm_calls =>
        /\ qr.pc = "generate" /\ qr.llm_calls = 0 /\ qr'.llm_calls = 1
        /\ qr.docs = TopK(qr.ranked, TOP_K)

\* C31: in an invocation the model is called once, after the retrieval
\* returned, with the contents of the retrieved fragments joined in rank
\* order by "\n\n" as context and with the request's question as it was
\* given; an invocation that produced an answer called the model.
C31_GenerationAfterRetrieval ==
    /\ [](qr.llm_calls > 0 =>
            /\ qr.llm_calls = 1
            /\ JoinedInRankOrder(qr.llm_input.context)
            /\ qr.llm_input.question = qr.query)
    /\ [](qr.pc \in {"respond", "returned", "type_error"} => qr.llm_calls = 1)
    /\ [][GenerationStep]_vars

C31_Witness ==
    /\ qr.pc = "returned" /\ qr.llm_calls = 1 /\ qr.query = "what is it?"
    /\ Len(qr.ranked) = TOP_K + 1 /\ Len(qr.llm_input.context) = 2 * TOP_K - 1
    /\ qr.ranked[1].metadata.chunk_id = 3

\* C32: when the wrapped _ensure_bucket_exists has returned, the bucket
\* exists and its versioning is enabled, whichever of the calls of the two
\* attempts raised.
C32_BucketVersioned ==
    rw.status = "returned" => bk.exists /\ bk.versioning

\* C33: when an ingest has upserted its fragments, every entry stored for
\* its source name in its client's namespace carries its timestamp and a
\* chunk_id below the number of its fragments, whatever earlier ingests of
\* the name stored.
C33_OnlyLatestIngestStored ==
    (req.pc \in {"respond", "done"} /\ req.upserted) =>
        \A e \in StoredFor(req.client, req.project, req.file_name) :
            /\ e.metadata.timestamp = req.timestamp
            /\ e.metadata.chunk_id < Len(req.ids)

\* The step ends request r with an error of the list-and-create path.
FailsNow(r) == qs[r].pc # "raised" /\ qs'[r].pc = "raised"

\* A failure comes out of a call of the path or out of the awaited task,
\* never out of a cache, and leaves no entry for the client in the cache
\* the request went through.
FailureStep ==
    \A r \in RaceIds :
        FailsNow(r) =>
            /\ qs[r].pc \in {"listing", "creating", "await_index"}
            /\ IF qs[r].kind = "ingest"
               THEN ~Cached(checked', qs[r].client)
               ELSE AlruFind(indexes', qs[r].client) = 0

\* C34: a request that fails in the list-and-create path (the listing or
\* create_index raises, or the dimension lookup fails) leaves nothing
\* memoized for its client, no failure is answered from a cache, and a
\* client is memoized as checked or with a handle only when its index
\* exists: the next request lists the indexes again.
C34_FailureNotMemoized ==
    /\ [](\A t \in Clients :
            /\ Cached(checked, t) => t \in remote
            /\ (AlruFind(indexes, t) # 0 /\ indexes[AlruFind(indexes, t)].state = "done")
                  => t \in remote)
    /\ [][FailureStep]_vars

\* One request failed creating the index of a client; the next request
\* for the client listed the indexes again and created it.
C34_Witness ==
    \E t \in Clients, r \in RaceIds, d \in RaceIds :
        /\ qs[r].client = t /\ qs[r].pc = "raised" /\ qs[r].error = "PineconeException"
        /\ qs[d].client = t /\ qs[d].pc = "returned"
        /\ Count(rcalls.list, t) = 2 /\ Count(rcalls.create, t) = 2
        /\ t \in remote

\* C35 as stated: on a resumed attempt (partial file of size s > 0) the
\* bytes appended to the partial file continue the resource at offset s,
\* whatever the server answers to the range request, and the file placed
\* at the destination by a resumed attempt is identical to the resource.
C35_ResumedAppendAtOffset ==
    /\ (dl.pc = "stream" /\ dl.existing_size > 0)
         => fs[dl.partial_file] \o dl.body = server.resource
    /\ (dw.status = "returned" /\ dl.existing_size > 0)
         => fs[dl.file_path] = server.resource

====
